---- MODULE Spec2Model ----
(***************************************************************************)
(* Verification model of the sandboxed action-execution runtime:           *)
(*   - ActionExecutor.run_action and its handlers                          *)
(*       (openhands/runtime/action_execution_server.py)                    *)
(*   - the line-edit transaction _edit_file_impl                           *)
(*       (openhands/runtime/plugins/agent_skills/file_ops/file_ops.py)     *)
(*   - BashSession.execute over pexpect                                    *)
(*       (openhands/runtime/utils/bash_pexpect.py)                         *)
(* Text is modelled as a sequence of tokens: NL is the newline character,  *)
(* IND is one indentation unit (four spaces), every other token is a       *)
(* newline-free, blank-free fragment.                                      *)
(***************************************************************************)
EXTENDS Integers, Sequences, FiniteSets, TLC

VARIABLES
    \* ---- ActionExecutor ----
    bash_session,   \* TRUE when self.bash_session is not None
    plugins,        \* names registered in self.plugins
    lock_locked,    \* asyncio.Lock._locked
    lock_waiters,   \* asyncio.Lock._waiters, FIFO of tasks
    lock_woken,     \* waiters whose future has been resolved by release()
    pc,             \* position of each run_action coroutine
    act,            \* the action each coroutine was called with
    obs,            \* what each coroutine is about to return or raise
    file,           \* the file system entry at FilePath
    nsub,           \* number of run_action calls made so far
    last,           \* the most recent dispatch: action, outcome, file before and after
    prev,           \* the dispatch before it, when that was a read: action and outcome
    \* ---- _edit_file_impl ----
    ed_pc,          \* position inside _edit_file_impl
    file_name,      \* the path the caller edits
    efile,          \* the file system entry at file_name
    temp_file,      \* the .temp_* sibling: None, or Some(content)
    backup_file,    \* original_file_backup_path: None, or Some(content)
    n_stray,        \* files left behind by earlier calls
    args,           \* the call's arguments and ENABLE_AUTO_LINT
    ed_start,       \* the local `start` after lines 544-545
    lines,          \* the list read from the original file
    new_content,    \* the local `content`: re-indented argument, then new file content
    old_file,       \* efile when the call started
    ret_str,        \* what the call returns
    CURRENT_LINE,   \* module global
    n_calls,        \* number of calls made so far
    \* ---- BashSession and the shell behind the pty ----
    bs_pc,          \* "new", "ready", "expecting" (inside child.expect), "returned"
    _initialized,   \* BashSession._initialized
    _cwd,           \* BashSession._cwd
    last_command,   \* BashSession.last_command
    username,       \* BashSession.username
    NO_CHANGE_TIMEOUT_SECONDS,
    child_buffer,   \* pexpect: data read from the pty and not yet matched
    cur,            \* the CmdRunAction of the call in progress
    sent,           \* the call in progress has sent its command to the shell
    elapsed,        \* seconds since child.expect was entered
    idle_for,       \* seconds since the output last grew
    received,       \* data read from the pty since the command was sent
    bs_obs,         \* what execute returned or raised
    n_exec,         \* number of execute calls so far
    pending,        \* the previous call gave up while its command was still running
    sh_alive,       \* the shell process is running
    sh_cwd,         \* the shell's working directory
    sh_jobs,        \* command lines the shell has been sent and not finished
    sh_half,        \* the shell has written the first part of its prompt
    pty,            \* data written by the shell or echoed, not yet read
    \* ---- the code kernel as run_ipython drives it ----
    _jupyter_cwd,   \* ActionExecutor._jupyter_cwd ("" while the attribute is unset)
    kernel_cwd,     \* the kernel process's working directory
    n_cells,        \* number of code cells submitted so far
    prev_command,   \* the command of the execute call before the current one
    \* ---- ActionExecutor.ainit and the server's lifespan ----
    ai_pc,          \* position inside ainit
    ai_bash_session,    \* self.bash_session: "None", "constructed", "initialized"
    plugins_to_load,    \* names of self.plugins_to_load
    plugin_task,    \* the _init_plugin task of each plugin
    ai_plugins,     \* names registered in self.plugins during ainit
    executor_initialized,   \* ActionExecutor._initialized
    wait_elapsed,   \* seconds since wait_all was entered
    cells_sent,     \* code cells sent to the kernel during ainit
    alive_status,   \* the last answer of GET /alive
    served_with,    \* the plugin sets execute_action has run with
    \* ---- ActionExecutor.run_ipython ----
    executor_username,  \* ActionExecutor.username
    last_code,      \* ActionExecutor.last_code
    is_last_code_error, \* ActionExecutor.is_last_code_error
    cell,           \* the latest run_ipython call: code, what was sent, output, result
    n_runs,         \* number of run_ipython calls so far
    \* ---- CodeActResponseParser ----
    response,       \* the LLM response text, as tokens
    parsed,         \* what parse(response) returned
    \* ---- StuckDetector ----
    history,        \* state.history
    stuck,          \* what is_stuck returned for the history
    \* ---- runtime/utils/system.py: find_available_tcp_port ----
    _port_lock,     \* the caller holding _port_lock, 0 when it is free
    allocated_ports,    \* the module's set allocated_ports
    bindable,       \* the ports no process has a socket bound to
    fc,             \* each call of find_available_tcp_port: position, candidates, result
    \* ---- CodeActAgent ----
    pending_actions,    \* CodeActAgent.pending_actions
    function_calling,   \* config.function_calling
    n_llm,          \* number of LLM completions asked for the agent's actions
    issued,         \* the actions of the latest LLM response
    returned,       \* the actions step returned since that response
    discarded,      \* the actions that were queued when reset was called
    step_out,       \* what the latest step (or reset) did
    \* ---- listen_socket.connect ----
    event_stream,   \* the conversation's events, in the order of their ids
    latest_event_id,    \* the query parameter of the connecting client
    cursor,         \* the id the replay reads next
    emitted,        \* the ids emitted to the client, in order
    agent_state_changed,    \* the event the replay keeps back
    cn_pc           \* position inside connect

exec_vars == <<bash_session, plugins, lock_locked, lock_waiters, lock_woken,
               pc, act, obs, file, nsub, last, prev>>

edit_vars == <<ed_pc, file_name, efile, temp_file, backup_file, n_stray, args,
               ed_start, lines, new_content, old_file, ret_str, CURRENT_LINE, n_calls>>

bash_vars == <<bs_pc, _initialized, _cwd, last_command, prev_command, username,
               NO_CHANGE_TIMEOUT_SECONDS, child_buffer, cur, sent, elapsed,
               idle_for, received, bs_obs, n_exec, pending, sh_alive, sh_cwd,
               sh_jobs, sh_half, pty, _jupyter_cwd, kernel_cwd, n_cells>>

kernel_vars == <<_jupyter_cwd, kernel_cwd, n_cells>>

init_vars == <<ai_pc, ai_bash_session, plugins_to_load, plugin_task, ai_plugins,
               executor_initialized, wait_elapsed, cells_sent, alive_status,
               served_with>>

ipython_vars == <<executor_username, last_code, is_last_code_error, cell, n_runs>>

parser_vars == <<response, parsed>>

stuck_vars == <<history, stuck>>

\* the components added after the first three
more_vars == <<init_vars, ipython_vars, parser_vars, stuck_vars>>

port_vars == <<_port_lock, allocated_ports, bindable, fc>>

agent_vars == <<pending_actions, function_calling, n_llm, issued, returned, discarded,
                step_out>>

connect_vars == <<event_stream, latest_event_id, cursor, emitted, agent_state_changed,
                  cn_pc>>

\* the components around the runtime: port allocation, the agent's queue, the socket
extra_vars == <<port_vars, agent_vars, connect_vars>>

vars == <<exec_vars, edit_vars, bash_vars, more_vars, extra_vars>>

-----------------------------------------------------------------------------
(* Bounds *)
NumTasks == 2
MaxActions == 3
MaxLine == 3
MaxEdits == 1
MaxExec == 2
MaxCells == 2

Tasks == 1..NumTasks

-----------------------------------------------------------------------------
(* Text helpers: Python str / list operations on token sequences *)

NL == "\n"

HasNL(s) == \E i \in 1..Len(s) : s[i] = NL

FirstNL(s) == CHOOSE i \in 1..Len(s) : s[i] = NL /\ \A j \in 1..(i-1) : s[j] # NL

RECURSIVE Split(_)
\* str.split('\n')
Split(s) ==
    IF ~HasNL(s) THEN <<s>>
    ELSE <<SubSeq(s, 1, FirstNL(s) - 1)>> \o Split(SubSeq(s, FirstNL(s) + 1, Len(s)))

RECURSIVE Readlines(_)
\* file.readlines() / str.splitlines(keepends=True) for '\n' line ends
Readlines(s) ==
    IF s = <<>> THEN <<>>
    ELSE IF ~HasNL(s) THEN <<s>>
    ELSE <<SubSeq(s, 1, FirstNL(s))>> \o Readlines(SubSeq(s, FirstNL(s) + 1, Len(s)))

RECURSIVE Join(_)
\* ''.join(lns) and file.writelines(lns)
Join(lns) == IF lns = <<>> THEN <<>> ELSE Head(lns) \o Join(Tail(lns))

\* [i + '\n' for i in insert]
AddNewlines(pieces) == [i \in 1..Len(pieces) |-> Append(pieces[i], NL)]

\* str.replace(old, new) for a one-token old string
Replace(s, old, new) == [i \in 1..Len(s) |-> IF s[i] = old THEN new ELSE s[i]]

Occurs(s, tok) == \E i \in 1..Len(s) : s[i] = tok

-----------------------------------------------------------------------------
(* ActionExecutor: actions and observations *)

FilePath == "/tmp/a.txt"

HandlerTags == {"run", "run_ipython", "read", "write", "edit", "browse",
                "browse_interactive"}

\* action tags that name no attribute of ActionExecutor
OtherTags == {"message"}

MkAction(tag, content, old, new, src) ==
    [action |-> tag, content |-> content, old_str |-> old, new_str |-> new,
     impl_source |-> src]

WriteContents == { <<"x=1", NL>>, <<"x=1">>, <<"x=1", NL, "x=2", NL>> }

Actions ==
    { MkAction(t, <<>>, "", "", "default") :
        t \in {"run", "run_ipython", "browse", "browse_interactive"} \cup OtherTags }
    \cup { MkAction("read", <<>>, "", "", s) : s \in {"default", "oh_aci"} }
    \cup { MkAction("write", c, "", "", "default") : c \in WriteContents }
    \cup { MkAction("edit", <<>>, "x=1", "x=2", s) : s \in {"oh_aci", "llm_based_edit"} }

NoAction == MkAction("none", <<>>, "", "", "default")

Observation(kind, content) == [kind |-> kind, content |-> content]
Raise(exc) == [kind |-> "raise", content |-> <<exc>>]
NoObs == [kind |-> "none", content |-> <<>>]

Absent == [kind |-> "absent", content |-> <<>>]
Directory == [kind |-> "dir", content |-> <<>>]
RegularFile(c) == [kind |-> "file", content |-> c]

NoCall == [act |-> NoAction, obs |-> NoObs, before |-> Absent, after |-> Absent]
NoPrev == [act |-> NoAction, obs |-> NoObs]
\* what is kept of a dispatch when the next one completes: a read and its result
PrevOf(l) == IF l.act.action = "read" THEN [act |-> l.act, obs |-> l.obs] ELSE NoPrev


-----------------------------------------------------------------------------
(* openhands.runtime.utils.files (read_lines, insert_lines), as the file    *)
(* handlers call them; Python slices become SubSeq                          *)

read_lines(all_lines, start, end) ==
    IF end = -1 THEN SubSeq(all_lines, start + 1, Len(all_lines))
    ELSE SubSeq(all_lines, start + 1, end)

insert_lines(to_insert, original, start, end) ==
    (IF start = 0 THEN << <<>> >> ELSE SubSeq(original, 1, start))
    \o AddNewlines(to_insert)
    \o (IF end = -1 THEN << <<>> >> ELSE SubSeq(original, end + 1, Len(original)))

-----------------------------------------------------------------------------
(* Handlers: each yields the set of (observation, file) outcomes            *)

Outcome(o, f) == [obs |-> o, file |-> f]

\* max_message_chars of CodeActAgent.get_observation_message
max_message_chars == 10000

\* what a command may print: nothing, coloured text ("\x1b[31m" is the
\* escape sequence for red), or a fragment of 20000 characters
AnsiRed == "\\x1b[31m"
LongOutput == "<20000 characters>"
CommandOutputs == { <<>>, <<AnsiRed, "o">>, <<LongOutput>> }

\* len(text) for a token sequence
Chars(tok) == IF tok = LongOutput THEN 20000 ELSE 1
RECURSIVE TextLen(_)
TextLen(s) == IF s = <<>> THEN 0 ELSE Chars(Head(s)) + TextLen(Tail(s))

\* re.compile(r'\x1b\[[0-9;]*m') finds a match
HasAnsi(s) == Occurs(s, AnsiRed)

\* BashSession.execute as seen by the dispatcher: an observation, or the
\* pexpect exception that expect() lets through
run(a) ==
    IF ~bash_session THEN { Outcome(Raise("AssertionError"), file) }
    ELSE { Outcome(Observation("CmdOutputObservation", c), file) : c \in CommandOutputs }
         \cup { Outcome(Raise("pexpect.TIMEOUT"), file),
                Outcome(Raise("pexpect.EOF"), file) }

run_ipython(a) ==
    IF ~bash_session THEN { Outcome(Raise("AssertionError"), file) }
    ELSE IF "jupyter" \in plugins
    THEN { Outcome(Observation(k, <<>>), file) :
             k \in {"IPythonRunCellObservation", "ErrorObservation"} }
    ELSE { Outcome(Raise("RuntimeError"), file) }

\* a read that may also return nothing
read_Forgetful(a) ==
    { Outcome(Observation("FileReadObservation", <<>>), file),
      Outcome(Observation("FileReadObservation", file.content), file) }

read(a) ==
    IF ~bash_session THEN { Outcome(Raise("AssertionError"), file) }
    ELSE IF a.impl_source = "oh_aci"
    THEN { Outcome(Observation("FileReadObservation", <<>>), file) }
    ELSE IF file.kind = "absent"
    THEN { Outcome(Observation("ErrorObservation", <<"File not found">>), file) }
    ELSE IF file.kind = "dir"
    THEN { Outcome(Observation("ErrorObservation", <<"Path is a directory">>), file) }
    ELSE { Outcome(Observation("FileReadObservation",
                               Join(read_lines(Readlines(file.content), 0, -1))),
                   file) }

\* the lines write() puts into the file
WriteNewFile(a) ==
    IF file.kind = "absent"
    THEN AddNewlines(Split(a.content))
    ELSE insert_lines(Split(a.content), Readlines(file.content), 0, -1)

\* what follows the with-block of write(): chmod/chown, then file.seek(0) on
\* the file object the with-block has closed
WriteAfterClose(chown_ok) ==
    IF chown_ok THEN Raise("ValueError") ELSE Raise("PermissionError")

write(a) ==
    IF ~bash_session THEN { Outcome(Raise("AssertionError"), file) }
    ELSE IF file.kind = "dir"
    THEN { Outcome(Observation("ErrorObservation", <<"Path is a directory">>), file) }
    ELSE { Outcome(WriteAfterClose(chown_ok), RegularFile(Join(WriteNewFile(a)))) :
             chown_ok \in BOOLEAN }

edit(a) ==
    IF a.impl_source # "oh_aci" THEN { Outcome(Raise("AssertionError"), file) }
    ELSE { Outcome(Observation("FileEditObservation", <<>>), file) }

browse(a) == { Outcome(Observation("BrowserOutputObservation", <<>>), file) }

browse_interactive(a) == browse(a)

\* getattr(self, action_type)(action)
Handler(a) ==
    CASE a.action = "run" -> run(a)
      [] a.action = "run_ipython" -> run_ipython(a)
      [] a.action = "read" -> read(a)
      [] a.action = "write" -> write(a)
      [] a.action = "edit" -> edit(a)
      [] a.action = "browse" -> browse(a)
      [] a.action = "browse_interactive" -> browse_interactive(a)

-----------------------------------------------------------------------------
(* run_action: async with self.lock *)

\* asyncio.Lock.acquire takes the lock at once only when it is free and no
\* waiter is queued
CanAcquire_IgnoresLock == TRUE
CanAcquire == ~lock_locked /\ lock_waiters = <<>>

ExecInit ==
    /\ bash_session \in BOOLEAN
    /\ plugins \in {{}, {"jupyter", "agent_skills"}}
    /\ lock_locked = FALSE
    /\ lock_waiters = <<>>
    /\ lock_woken = {}
    /\ pc = [t \in Tasks |-> "idle"]
    /\ act = [t \in Tasks |-> NoAction]
    /\ obs = [t \in Tasks |-> NoObs]
    /\ file \in {Absent, Directory}
    /\ nsub = 0
    /\ last = NoCall
    /\ prev = NoPrev

\* a caller invokes run_action(action)
Submit(t) ==
    /\ UNCHANGED <<edit_vars, bash_vars, more_vars, extra_vars>>
    /\ pc[t] = "idle"
    /\ nsub < MaxActions
    /\ \E a \in Actions : act' = [act EXCEPT ![t] = a]
    /\ pc' = [pc EXCEPT ![t] = "acquire"]
    /\ nsub' = nsub + 1
    /\ UNCHANGED <<bash_session, plugins, lock_locked, lock_waiters, lock_woken,
                   obs, file, last, prev>>

\* Lock.acquire: fast path, or queue behind the holder
Acquire(t) ==
    /\ UNCHANGED <<edit_vars, bash_vars, more_vars, extra_vars>>
    /\ pc[t] = "acquire"
    /\ IF CanAcquire
       THEN /\ lock_locked' = TRUE
            /\ pc' = [pc EXCEPT ![t] = "locked"]
            /\ UNCHANGED lock_waiters
       ELSE /\ lock_waiters' = Append(lock_waiters, t)
            /\ pc' = [pc EXCEPT ![t] = "waiting"]
            /\ UNCHANGED lock_locked
    /\ UNCHANGED <<bash_session, plugins, lock_woken, act, obs, file, nsub, last, prev>>

\* Lock.acquire resumes after release() resolved this waiter's future
Wake(t) ==
    /\ UNCHANGED <<edit_vars, bash_vars, more_vars, extra_vars>>
    /\ pc[t] = "waiting"
    /\ t \in lock_woken
    /\ lock_waiters' = SelectSeq(lock_waiters, LAMBDA u : u # t)
    /\ lock_woken' = lock_woken \ {t}
    /\ lock_locked' = TRUE
    /\ pc' = [pc EXCEPT ![t] = "locked"]
    /\ UNCHANGED <<bash_session, plugins, act, obs, file, nsub, last, prev>>

\* getattr(self, action_type) finds a handler for the tag
Routable_Any(tag) == TRUE
Routable(tag) == tag \in HandlerTags

\* getattr(self, action_type): the handler starts, or AttributeError
Dispatch(t) ==
    /\ UNCHANGED <<edit_vars, bash_vars, more_vars, extra_vars>>
    /\ pc[t] = "locked"
    /\ IF Routable(act[t].action)
       THEN /\ pc' = [pc EXCEPT ![t] = "handler"]
            /\ UNCHANGED obs
            /\ UNCHANGED <<last, prev>>
       ELSE /\ pc' = [pc EXCEPT ![t] = "exit"]
            /\ obs' = [obs EXCEPT ![t] = Raise("AttributeError")]
            /\ last' = [act |-> act[t], obs |-> Raise("AttributeError"),
                        before |-> file, after |-> file]
            /\ prev' = PrevOf(last)
    /\ UNCHANGED <<bash_session, plugins, lock_locked, lock_waiters, lock_woken,
                   act, file, nsub>>

\* the handler returns or raises
HandlerDone(t) ==
    /\ UNCHANGED <<edit_vars, bash_vars, more_vars, extra_vars>>
    /\ pc[t] = "handler"
    /\ \E r \in Handler(act[t]) :
          /\ obs' = [obs EXCEPT ![t] = r.obs]
          /\ file' = r.file
          /\ last' = [act |-> act[t], obs |-> r.obs,
                       before |-> file, after |-> r.file]
    /\ prev' = PrevOf(last)
    /\ pc' = [pc EXCEPT ![t] = "exit"]
    /\ UNCHANGED <<bash_session, plugins, lock_locked, lock_waiters, lock_woken,
                   act, nsub>>

\* a release that happens only when the handler returned
Release_OnReturnOnly(t) ==
    /\ UNCHANGED <<edit_vars, bash_vars, more_vars, extra_vars>>
    /\ pc[t] = "exit"
    /\ lock_locked' = (obs[t].kind = "raise")
    /\ lock_woken' = IF lock_waiters # <<>> /\ obs[t].kind # "raise"
                     THEN lock_woken \cup {Head(lock_waiters)}
                     ELSE lock_woken
    /\ pc' = [pc EXCEPT ![t] = "idle"]
    /\ act' = [act EXCEPT ![t] = NoAction]
    /\ obs' = [obs EXCEPT ![t] = NoObs]
    /\ UNCHANGED <<bash_session, plugins, lock_waiters, file, nsub, last, prev>>

\* Lock.release on leaving the async with block, by return or by exception
Release(t) ==
    /\ UNCHANGED <<edit_vars, bash_vars, more_vars, extra_vars>>
    /\ pc[t] = "exit"
    /\ lock_locked' = FALSE
    /\ lock_woken' = IF lock_waiters # <<>>
                     THEN lock_woken \cup {Head(lock_waiters)}
                     ELSE lock_woken
    /\ pc' = [pc EXCEPT ![t] = "idle"]
    /\ act' = [act EXCEPT ![t] = NoAction]
    /\ obs' = [obs EXCEPT ![t] = NoObs]
    /\ UNCHANGED <<bash_session, plugins, lock_waiters, file, nsub, last, prev>>

ExecNext ==
    \E t \in Tasks :
        \/ Submit(t)
        \/ Acquire(t)
        \/ Wake(t)
        \/ Dispatch(t)
        \/ HandlerDone(t)
        \/ Release(t)

-----------------------------------------------------------------------------
(* file_ops.py: Python helpers used by the line-edit transaction *)

IND == "    "

None == <<>>
Some(k) == <<k>>

Min(a, b) == IF a < b THEN a ELSE b
Max(a, b) == IF a > b THEN a ELSE b

\* seq[k:] and seq[:k] with Python's treatment of negative and oversize k
SliceFrom(seq, k) ==
    IF k >= 0 THEN SubSeq(seq, k + 1, Len(seq))
    ELSE SubSeq(seq, Max(Len(seq) + k, 0) + 1, Len(seq))
SliceTo(seq, k) ==
    IF k >= 0 THEN SubSeq(seq, 1, Min(k, Len(seq)))
    ELSE SubSeq(seq, 1, Max(Len(seq) + k, 0))

EndsWithNL(s) == s # <<>> /\ s[Len(s)] = NL

\* line.strip() == ''
IsBlank(line) == \A i \in 1..Len(line) : line[i] \in {IND, NL}

\* line.count('    ')
CountInd(line) == Cardinality({i \in 1..Len(line) : line[i] = IND})

RECURSIVE JoinNL(_)
\* '\n'.join(pieces)
JoinNL(pieces) ==
    IF pieces = <<>> THEN <<>>
    ELSE IF Len(pieces) = 1 THEN pieces[1]
    ELSE pieces[1] \o <<NL>> \o JoinNL(Tail(pieces))

RECURSIVE Repeat(_, _)
Repeat(tok, n) == IF n <= 0 THEN <<>> ELSE <<tok>> \o Repeat(tok, n - 1)

\* line_start is None (whole text) or Some(k): text.split('\n')[k:]
get_indent_level(text, line_start) ==
    LET all == Split(text)
        ls == IF line_start = None THEN all ELSE SliceFrom(all, line_start[1])
        nonblank == {i \in 1..Len(ls) : ~IsBlank(ls[i])}
    IN IF nonblank = {} THEN 0
       ELSE CountInd(ls[CHOOSE i \in nonblank : \A j \in nonblank : i <= j])

StartsWith(line, pre) == Len(line) >= Len(pre) /\ SubSeq(line, 1, Len(pre)) = pre

indent_lines(text, level) ==
    LET d == level - get_indent_level(text, None)
        ls == Split(text)
    IN IF d = 0 THEN text
       ELSE IF d > 0
       THEN JoinNL([i \in 1..Len(ls) |-> Repeat(IND, d) \o ls[i]])
       ELSE JoinNL([i \in 1..Len(ls) |->
                      IF StartsWith(ls[i], Repeat(IND, -d))
                      THEN SubSeq(ls[i], 1 - d, Len(ls[i]))
                      ELSE ls[i]])

\* Result of the three _impl helpers: the new file content, the number of
\* added lns, the caller's list `lines` as the helper leaves it, and the
\* LineNumberError message when one is raised
ImplOk(content, n, lns) ==
    [err |-> "", content |-> content, n_added_lines |-> n, lines |-> lns]
LineNumberError(msg, lns) ==
    [err |-> msg, content |-> <<>>, n_added_lines |-> 0, lines |-> lns]

\* lines[-1] += '\n' changes the caller's list in place
AppendTerminatesLastLine(lns) ==
    IF ~EndsWithNL(lns[Len(lns)])
    THEN [lns EXCEPT ![Len(lns)] = Append(@, NL)]
    ELSE lns

_append_impl(lns, content) ==
    LET content_lines == Readlines(content)
    IN IF lns # <<>> /\ ~(Len(lns) = 1 /\ IsBlank(lns[1]))
       THEN LET ls == AppendTerminatesLastLine(lns)
            IN ImplOk(Join(ls \o content_lines), Len(content_lines), ls)
       ELSE ImplOk(Join(content_lines), Len(content_lines), lns)

_insert_impl(lns, start, content) ==
    LET inserted_lines == << IF ~EndsWithNL(content) THEN Append(content, NL)
                             ELSE content >>
    IN IF Len(lns) = 0 THEN ImplOk(Join(inserted_lines), 1, lns)
       ELSE IF start # None
       THEN LET ls == IF Len(lns) = 1 /\ IsBlank(lns[1]) THEN <<>> ELSE lns
            IN IF Len(ls) = 0 THEN ImplOk(Join(inserted_lines), 1, lns)
               ELSE ImplOk(Join(SliceTo(ls, start[1] - 1) \o inserted_lines
                                \o SliceFrom(ls, start[1] - 1)), 1, lns)
       ELSE LineNumberError("Invalid line number", lns)

_edit_impl(lns, start, end, content) ==
    LET ls == IF lns = <<>> THEN << <<>> >> ELSE lns
        s == IF start = None THEN 1 ELSE start[1]
        e == IF end = None THEN Len(ls) ELSE end[1]
        c == IF content # <<>> /\ ~EndsWithNL(content) THEN Append(content, NL)
             ELSE content
        content_lines == Readlines(c)
    IN IF s < 1 THEN LineNumberError("Start line number should be positive.", lns)
       ELSE IF e < 1 THEN LineNumberError("End line number should be positive.", lns)
       ELSE IF ~(s <= Len(ls)) THEN LineNumberError("Invalid start line number", lns)
       ELSE IF ~(e <= Len(ls)) THEN LineNumberError("Invalid end line number", lns)
       ELSE IF s > e THEN LineNumberError("Invalid line range", lns)
       ELSE ImplOk(Join(SliceTo(ls, s - 1) \o content_lines \o SliceFrom(ls, e)),
                   Len(content_lines), lns)

-----------------------------------------------------------------------------
(* file_ops.py: _edit_file_impl *)

ProtectedPath == "/tmp/test_task.py"

\* the linter collaborator: one finding per offending fragment, in line order
LintMessage(tok) == IF tok = "E1" THEN "undefined name" ELSE "syntax error"

RECURSIVE LintLines(_, _)
LintLines(ls, k) ==
    IF ls = <<>> THEN <<>>
    ELSE LET bad == {i \in 1..Len(Head(ls)) : Head(ls)[i] \in {"E1", "E2"}}
             first == CHOOSE i \in bad : \A j \in bad : i <= j
         IN (IF bad = {} THEN <<>>
             ELSE << [line |-> k, message |-> LintMessage(Head(ls)[first])] >>)
            \o LintLines(Tail(ls), k + 1)

\* _lint_file: the findings (empty for the return value None) ...
_lint_file(content) == LintLines(Readlines(content), 1)

\* ... and the line of the first one
first_error_line_of(report) == IF report = <<>> THEN None ELSE Some(report[1].line)

\* subtract_strings keeps the lines of the second report whose text after the
\* last ':' (the message) is not the message of any line of the first
subtract_strings(str1, str2) ==
    SelectSeq(str2, LAMBDA f : \A i \in 1..Len(str1) : str1[i].message # f.message)

\* lint_error as left by lines 640-644
NewLintErrors(original_lint_error, lint_error) ==
    IF original_lint_error # <<>> /\ lint_error # <<>>
    THEN subtract_strings(original_lint_error, lint_error)
    ELSE lint_error

\* total_lines of _print_window
WindowTotalLines(content) ==
    Len(Readlines(IF EndsWithNL(content) THEN content ELSE Append(content, NL)))

_clamp(value, min_value, max_value) == Max(min_value, Min(value, max_value))

Truthy(opt) == opt # None /\ opt[1] # 0

NoArgs == [start |-> None, end |-> None, content |-> <<>>, is_insert |-> FALSE,
           is_append |-> FALSE, enable_auto_lint |-> FALSE]

OptLine == {None} \cup {Some(k) : k \in 0..MaxLine}

EditContents == { <<>>, <<"c">>, <<"c", NL>>, <<"E1">>, <<"E2", NL>>, <<IND, "c">> }

ArgSet ==
    [start : OptLine, end : OptLine, content : EditContents,
     is_insert : BOOLEAN, is_append : BOOLEAN, enable_auto_lint : BOOLEAN]

InitFiles == { <<>>, <<"a", NL>>, <<"a", NL, "b", NL>>, <<"a", NL, "b">>,
               <<"E1", NL, "a", NL>>, <<IND, "a", NL>> }

\* lines 544-549: a missing or zero start becomes the line count, then the
\* content is re-indented to the level found from that line on
EffectiveStart(a, old_content) ==
    IF ~Truthy(a.start) THEN Some(Len(Readlines(old_content))) ELSE a.start

EffectiveContent(a, old_content) ==
    indent_lines(a.content,
                 get_indent_level(old_content,
                                  Some(EffectiveStart(a, old_content)[1] - 1)))

EditInit ==
    /\ ed_pc = "idle"
    /\ file_name \in {"/tmp/a.py", ProtectedPath}
    /\ efile \in {Absent} \cup {RegularFile(c) : c \in InitFiles}
    /\ temp_file = None
    /\ backup_file = None
    /\ n_stray = 0
    /\ args = NoArgs
    /\ ed_start = None
    /\ lines = <<>>
    /\ new_content = <<>>
    /\ old_file = Absent
    /\ ret_str = "none"
    /\ CURRENT_LINE = 1
    /\ n_calls = 0

\* lines 515-577: validation, reading, re-indenting, lint of the original,
\* creation of the temporary file
EditEnter ==
    /\ UNCHANGED <<exec_vars, bash_vars, more_vars, extra_vars>>
    /\ ed_pc = "idle"
    /\ n_calls < MaxEdits
    /\ n_calls' = n_calls + 1
    /\ old_file' = efile
    /\ \E a \in ArgSet :
        IF \/ file_name = ProtectedPath
           \/ efile.kind # "file"
           \/ (a.is_insert /\ a.is_append)
        THEN /\ args' = a
             /\ ret_str' = "None"
             /\ ed_pc' = "returned"
             /\ UNCHANGED <<temp_file, ed_start, lines, new_content>>
        ELSE /\ args' = a
             /\ ed_start' = EffectiveStart(a, efile.content)
             /\ new_content' = EffectiveContent(a, efile.content)
             /\ temp_file' = Some(<<>>)
             /\ lines' = Readlines(efile.content)
             /\ ret_str' = "none"
             /\ ed_pc' = "temp_open"
    /\ UNCHANGED <<file_name, efile, backup_file, n_stray, CURRENT_LINE>>

ImplResult ==
    IF args.is_append THEN _append_impl(lines, new_content)
    ELSE IF args.is_insert THEN _insert_impl(lines, ed_start, new_content)
    ELSE _edit_impl(lines, ed_start, args.end, new_content)

\* lines 579-598: compute the new content and write it to the temporary
\* file, or return the line-number error from inside the with-block
EditCompute ==
    /\ UNCHANGED <<exec_vars, bash_vars, more_vars, extra_vars>>
    /\ ed_pc = "temp_open"
    /\ LET r == ImplResult
       IN IF r.err # ""
          THEN /\ ret_str' = "LineNumberError"
               /\ ed_pc' = "returned"
               /\ UNCHANGED <<temp_file, lines, new_content>>
          ELSE LET c == IF ~EndsWithNL(r.content) THEN Append(r.content, NL)
                        ELSE r.content
               IN /\ new_content' = c
                  /\ temp_file' = Some(c)
                  /\ lines' = r.lines
                  /\ ed_pc' = "temp_written"
                  /\ UNCHANGED ret_str
    /\ UNCHANGED <<file_name, efile, backup_file, n_stray, args, ed_start,
                   old_file, CURRENT_LINE, n_calls>>

\* line 601: os.replace(temp_file_path, file_name)
EditReplace ==
    /\ UNCHANGED <<exec_vars, bash_vars, more_vars, extra_vars>>
    /\ ed_pc = "temp_written"
    /\ efile' = RegularFile(temp_file[1])
    /\ temp_file' = None
    /\ ed_pc' = "replaced"
    /\ UNCHANGED <<file_name, backup_file, n_stray, args, ed_start, lines,
                   new_content, old_file, ret_str, CURRENT_LINE, n_calls>>

\* lines 606-698: back up `lines`, lint the new file, and on new errors write
\* the backup over the file, remove the backup and return the lint message
EditLint ==
    /\ UNCHANGED <<exec_vars, bash_vars, more_vars, extra_vars>>
    /\ ed_pc = "replaced"
    /\ args.enable_auto_lint
    /\ LET backup == Join(lines)
           lint_error == _lint_file(efile.content)
           remaining == NewLintErrors(_lint_file(old_file.content), lint_error)
           first_error_line == IF remaining = <<>> THEN None
                               ELSE first_error_line_of(lint_error)
           show_line == first_error_line[1]
       IN IF remaining # <<>>
          THEN /\ efile' = RegularFile(backup)
               /\ backup_file' = None
               /\ CURRENT_LINE' = _clamp(show_line, 1, WindowTotalLines(backup))
               /\ ret_str' = "LintError"
               /\ ed_pc' = "returned"
          ELSE /\ backup_file' = Some(backup)
               /\ ed_pc' = "linted"
               /\ UNCHANGED <<efile, CURRENT_LINE, ret_str>>
    /\ UNCHANGED <<file_name, temp_file, n_stray, args, ed_start, lines,
                   new_content, old_file, n_calls>>

\* lines 715-732: move the cursor and report success
EditFinish ==
    /\ UNCHANGED <<exec_vars, bash_vars, more_vars, extra_vars>>
    /\ \/ ed_pc = "linted"
       \/ ed_pc = "replaced" /\ ~args.enable_auto_lint
    /\ LET n_total_lines == Max(1, Len(Readlines(efile.content)))
           target == IF args.is_append THEN Max(1, Len(lines))
                     ELSE IF Truthy(ed_start) THEN ed_start[1]
                     ELSE n_total_lines
       IN CURRENT_LINE' = _clamp(target, 1, WindowTotalLines(efile.content))
    /\ ret_str' = "success"
    /\ ed_pc' = "returned"
    /\ UNCHANGED <<file_name, efile, temp_file, backup_file, n_stray, args,
                   ed_start, lines, new_content, old_file, n_calls>>

\* the caller has the return value; the files the call left behind stay
EditLeave ==
    /\ UNCHANGED <<exec_vars, bash_vars, more_vars, extra_vars>>
    /\ ed_pc = "returned"
    /\ ed_pc' = "idle"
    /\ n_stray' = n_stray + (IF temp_file # None THEN 1 ELSE 0)
                          + (IF backup_file # None THEN 1 ELSE 0)
    /\ temp_file' = None
    /\ backup_file' = None
    /\ args' = NoArgs
    /\ ed_start' = None
    /\ lines' = <<>>
    /\ new_content' = <<>>
    /\ ret_str' = "none"
    /\ UNCHANGED <<file_name, efile, old_file, CURRENT_LINE, n_calls>>

\* find_and_replace_regex(file_name, pattern, replacement), lines 826-841:
\* the file is opened 'r+' and rewritten with re.sub; a missing file raises
find_and_replace_regex ==
    /\ UNCHANGED <<exec_vars, bash_vars, more_vars, extra_vars>>
    /\ ed_pc = "idle"
    /\ n_calls < MaxEdits
    /\ n_calls' = n_calls + 1
    /\ \E pattern \in {"a", "b"}, replacement \in {"c"} :
          efile' = IF efile.kind = "file"
                   THEN RegularFile(Replace(efile.content, pattern, replacement))
                   ELSE efile
    /\ UNCHANGED <<ed_pc, file_name, temp_file, backup_file, n_stray, args,
                   ed_start, lines, new_content, old_file, ret_str, CURRENT_LINE>>

\* delete_file(file_name), lines 1406-1410: os.remove, errors only printed
delete_file ==
    /\ UNCHANGED <<exec_vars, bash_vars, more_vars, extra_vars>>
    /\ ed_pc = "idle"
    /\ n_calls < MaxEdits
    /\ n_calls' = n_calls + 1
    /\ efile' = IF efile.kind = "file" THEN Absent ELSE efile
    /\ UNCHANGED <<ed_pc, file_name, temp_file, backup_file, n_stray, args,
                   ed_start, lines, new_content, old_file, ret_str, CURRENT_LINE>>

EditNext ==
    \/ find_and_replace_regex
    \/ delete_file
    \/ EditEnter
    \/ EditCompute
    \/ EditReplace
    \/ EditLint
    \/ EditFinish
    \/ EditLeave

-----------------------------------------------------------------------------
(* bash_pexpect.py: BashSession over a pexpect child                        *)
(* The pty stream is a sequence of tokens: "c" the echo of a command line   *)
(* (BlankLine for the empty command, whose echo is a line end only),        *)
(* "o" a piece of command output, PB the prompt text up to and including    *)
(* its newline ("[PEXPECT_BEGIN]user@host:cwd\n") and PE the rest of the    *)
(* prompt ("[PEXPECT_END]").                                                *)

PB == "[PEXPECT_BEGIN]u@h:w\n"
PE == "[PEXPECT_END]"

\* pexpect.spawn(..., timeout=30): the limit of one child.expect call
SpawnTimeout == 30
\* no_change_timeout_seconds: the constructor's default, and the value
\* ActionExecutor.ainit passes
DefaultNoChangeTimeout == 10
ExecutorNoChangeTimeout == 30
\* seconds that pass in one step of the clock
TickSeconds == 5

Forever == -1

WorkDir == "/workspace"

Job(left, out, noisy, cd, die) ==
    [left |-> left, out |-> out, noisy |-> noisy, cd |-> cd, die |-> die]

\* what the shell does with each command line it is sent
JobsOf(command) ==
    CASE command = "" -> << Job(0, <<>>, FALSE, "", FALSE) >>
      [] command = "ls -l" -> << Job(0, <<"o">>, FALSE, "", FALSE) >>
      [] command = "cd /tmp" -> << Job(0, <<>>, FALSE, "/tmp", FALSE) >>
      [] command = "cd /workspace" -> << Job(0, <<>>, FALSE, "/workspace", FALSE) >>
      [] command = "sleep 10" -> << Job(10, <<>>, FALSE, "", FALSE) >>
      [] command = "sleep 60" -> << Job(60, <<>>, FALSE, "", FALSE) >>
      [] command = "tail -f log" -> << Job(Forever, <<>>, TRUE, "", FALSE) >>
      [] command = "echo a\necho b" -> << Job(0, <<"o">>, FALSE, "", FALSE),
                                          Job(0, <<"o">>, FALSE, "", FALSE) >>
      [] command = "exit" -> << Job(0, <<>>, FALSE, "", TRUE) >>
      [] command = "git blame f" -> << Job(0, <<"o">>, FALSE, "", FALSE) >>
      [] command = "false" -> << Job(0, <<>>, FALSE, "", FALSE) >>

\* the exit status the shell gives the command line ($? at the next prompt)
ExitStatus(command) == IF command = "false" THEN 1 ELSE 0

Commands == {"", "ls -l", "cd /tmp", "cd /workspace", "sleep 10", "sleep 60", "tail -f log",
             "echo a\necho b", "exit", "git blame f", "false"}

HardTimeouts == {10, 300}

CmdRunActions == [command : Commands, is_input : BOOLEAN, timeout : HardTimeouts]

NoCmd == [command |-> "", is_input |-> FALSE, timeout |-> 0]

\* command.startswith('cd') and command[3:].strip()
StartsWithCd(command) == command \in {"cd /tmp", "cd /workspace"}
CdPath(command) == IF command = "cd /tmp" THEN "/tmp" ELSE "/workspace"

\* lines 211-231: the answer execute gives without sending the command,
\* or "" when the command goes to the shell
CannedOutput(command) ==
    IF command = last_command /\ command \in {"ls -l", "ls -la"}
    THEN "[Why are you executing the same command twice?]"
    ELSE IF StartsWithCd(command)
    THEN (IF _cwd = CdPath(command) THEN "[You are already in this directory.]"
          ELSE "")
    ELSE IF username = "root" /\ command = "git blame f"
    THEN "[Don't use git commands. Just directly give the solution.]"
    ELSE ""

\* the echo of the line child.sendline(command) writes, and len(command) in
\* tokens: the empty command has length 0 and echoes a line end only
BlankLine == "<newline>"
Echo(command) == IF command = "" THEN <<BlankLine>> ELSE <<"c">>
CommandLen(command) == IF command = "" THEN 0 ELSE 1

\* str.strip(): white space at both ends goes
Strip(seq) ==
    LET solid == { i \in 1..Len(seq) : seq[i] # BlankLine }
    IN IF solid = {} THEN <<>>
       ELSE SubSeq(seq, CHOOSE i \in solid : \A j \in solid : i <= j,
                        CHOOSE i \in solid : \A j \in solid : j <= i)

\* bash_expect_regex matches where the two prompt parts are adjacent
MatchAt(buf, i) == i < Len(buf) /\ buf[i] = PB /\ buf[i + 1] = PE
HasMatch(buf) == \E i \in 1..Len(buf) : MatchAt(buf, i)
FirstMatch(buf) ==
    CHOOSE i \in 1..Len(buf) : MatchAt(buf, i) /\ \A j \in 1..(i - 1) : ~MatchAt(buf, j)

CmdOutputObservation(content, command, exit_code) ==
    [kind |-> "CmdOutputObservation", content |-> content, command |-> command,
     exit_code |-> exit_code]
BashRaise(exc) ==
    [kind |-> "raise", content |-> <<exc>>, command |-> "", exit_code |-> 0]
NoBashObs == [kind |-> "none", content |-> <<>>, command |-> "", exit_code |-> 0]

BashInit ==
    /\ bs_pc = "new"
    /\ _initialized = FALSE
    /\ _cwd = ""
    /\ last_command = ""
    /\ prev_command = ""
    /\ username \in {"root", "openhands"}
    /\ NO_CHANGE_TIMEOUT_SECONDS \in {DefaultNoChangeTimeout, ExecutorNoChangeTimeout}
    /\ child_buffer = <<>>
    /\ cur = NoCmd
    /\ sent = FALSE
    /\ elapsed = 0
    /\ idle_for = 0
    /\ received = <<>>
    /\ bs_obs = NoBashObs
    /\ n_exec = 0
    /\ pending = FALSE
    /\ sh_alive = FALSE
    /\ sh_cwd = ""
    /\ sh_jobs = <<>>
    /\ sh_half = FALSE
    /\ pty = <<>>
    /\ _jupyter_cwd = ""
    /\ kernel_cwd = ""
    /\ n_cells = 0

\* initialize(): spawn bash, cd to the work dir, set PS1, wait for the prompt
initialize ==
    /\ UNCHANGED <<exec_vars, edit_vars, more_vars, extra_vars, kernel_vars, pending>>
    /\ bs_pc = "new"
    /\ sh_alive' = TRUE
    /\ sh_cwd' = WorkDir
    /\ _cwd' = WorkDir
    /\ _initialized' = TRUE
    /\ bs_pc' = "ready"
    /\ UNCHANGED <<last_command, prev_command, username, NO_CHANGE_TIMEOUT_SECONDS, child_buffer,
                   cur, sent, elapsed, idle_for, received, bs_obs, n_exec, sh_jobs,
                   sh_half, pty>>

\* execute(), lines 205-240: the canned answers, or child.sendline(command)
\* followed by the entry into child.expect
execute ==
    /\ UNCHANGED <<exec_vars, edit_vars, more_vars, extra_vars, kernel_vars, pending>>
    /\ bs_pc = "ready"
    /\ n_exec < MaxExec
    /\ n_exec' = n_exec + 1
    /\ \E a \in CmdRunActions :
        /\ cur' = a
        /\ IF CannedOutput(a.command) # ""
           THEN /\ bs_obs' = CmdOutputObservation(<<CannedOutput(a.command)>>, "", 0)
                /\ bs_pc' = "returned"
                /\ sent' = FALSE
                /\ UNCHANGED <<pty, sh_jobs, elapsed, idle_for, received>>
           ELSE /\ pty' = IF sh_alive THEN pty \o Echo(a.command) ELSE pty
                /\ sh_jobs' = IF sh_alive THEN sh_jobs \o JobsOf(a.command) ELSE sh_jobs
                /\ sent' = TRUE
                /\ elapsed' = 0
                /\ idle_for' = 0
                /\ received' = <<>>
                /\ bs_obs' = NoBashObs
                /\ bs_pc' = "expecting"
    /\ UNCHANGED <<_initialized, _cwd, last_command, prev_command, username,
                   NO_CHANGE_TIMEOUT_SECONDS, child_buffer, sh_alive, sh_cwd, sh_half>>

\* child.expect reads what the pty holds, in pieces of any size
ExpectRead ==
    /\ UNCHANGED <<exec_vars, edit_vars, more_vars, extra_vars, kernel_vars, pending>>
    /\ bs_pc = "expecting"
    /\ ~HasMatch(child_buffer)
    /\ pty # <<>>
    /\ \E k \in 1..Len(pty) :
        /\ child_buffer' = child_buffer \o SubSeq(pty, 1, k)
        /\ received' = received \o SubSeq(pty, 1, k)
        /\ pty' = SubSeq(pty, k + 1, Len(pty))
    /\ idle_for' = 0
    /\ UNCHANGED <<bs_pc, _initialized, _cwd, last_command, prev_command, username,
                   NO_CHANGE_TIMEOUT_SECONDS, cur, sent, elapsed, bs_obs, n_exec,
                   sh_alive, sh_cwd, sh_jobs, sh_half>>

\* lines 241-249: the pattern is found; child.before is what precedes it
ExpectMatch ==
    /\ UNCHANGED <<exec_vars, edit_vars, more_vars, extra_vars, kernel_vars>>
    /\ bs_pc = "expecting"
    /\ HasMatch(child_buffer)
    /\ LET i == FirstMatch(child_buffer)
           before == SubSeq(child_buffer, 1, i - 1)
       IN /\ bs_obs' = CmdOutputObservation(
                            Strip(SliceFrom(before, CommandLen(cur.command))),
                            cur.command, 0)
          /\ child_buffer' = SubSeq(child_buffer, i + 2, Len(child_buffer))
    /\ bs_pc' = "returned"
    /\ pending' = FALSE
    /\ UNCHANGED <<_initialized, _cwd, last_command, prev_command, username,
                   NO_CHANGE_TIMEOUT_SECONDS, cur, sent, elapsed, idle_for, received,
                   n_exec, sh_alive, sh_cwd, sh_jobs, sh_half, pty>>

\* child.expect gives up after the spawn timeout: pexpect.TIMEOUT leaves
\* execute, the buffer is kept
ExpectTimeout ==
    /\ UNCHANGED <<exec_vars, edit_vars, more_vars, extra_vars, kernel_vars>>
    /\ bs_pc = "expecting"
    /\ ~HasMatch(child_buffer)
    /\ elapsed >= SpawnTimeout
    /\ bs_obs' = BashRaise("pexpect.TIMEOUT")
    /\ bs_pc' = "returned"
    /\ pending' = TRUE
    /\ UNCHANGED <<_initialized, _cwd, last_command, prev_command, username,
                   NO_CHANGE_TIMEOUT_SECONDS, child_buffer, cur, sent, elapsed,
                   idle_for, received, n_exec, sh_alive, sh_cwd, sh_jobs, sh_half,
                   pty>>

\* the shell is gone and the pty is drained: pexpect.EOF leaves execute
ExpectEOF ==
    /\ UNCHANGED <<exec_vars, edit_vars, more_vars, extra_vars, kernel_vars>>
    /\ bs_pc = "expecting"
    /\ ~HasMatch(child_buffer)
    /\ ~sh_alive
    /\ pty = <<>>
    /\ bs_obs' = BashRaise("pexpect.EOF")
    /\ child_buffer' = <<>>
    /\ bs_pc' = "returned"
    /\ pending' = FALSE
    /\ UNCHANGED <<_initialized, _cwd, last_command, prev_command, username,
                   NO_CHANGE_TIMEOUT_SECONDS, cur, sent, elapsed, idle_for, received,
                   n_exec, sh_alive, sh_cwd, sh_jobs, sh_half, pty>>

\* the caller has the result and may call execute again
BashReturn ==
    /\ UNCHANGED <<exec_vars, edit_vars, more_vars, extra_vars, kernel_vars, pending>>
    /\ bs_pc = "returned"
    /\ bs_pc' = "ready"
    /\ cur' = NoCmd
    /\ sent' = FALSE
    /\ elapsed' = 0
    /\ idle_for' = 0
    /\ received' = <<>>
    /\ bs_obs' = NoBashObs
    /\ prev_command' = cur.command
    /\ UNCHANGED <<_initialized, _cwd, last_command, username,
                   NO_CHANGE_TIMEOUT_SECONDS, child_buffer, n_exec, sh_alive, sh_cwd,
                   sh_jobs, sh_half, pty>>

ShellDue == sh_alive /\ sh_jobs # <<>> /\ Head(sh_jobs).left = 0

\* the shell finishes a command line: its output, then the first part of the
\* prompt; `exit` ends the shell instead
ShellFinish ==
    /\ UNCHANGED <<exec_vars, edit_vars, more_vars, extra_vars, kernel_vars, pending>>
    /\ ShellDue
    /\ ~sh_half
    /\ IF Head(sh_jobs).die
       THEN /\ sh_alive' = FALSE
            /\ sh_jobs' = <<>>
            /\ UNCHANGED <<pty, sh_half, sh_cwd>>
       ELSE /\ pty' = pty \o Head(sh_jobs).out \o <<PB>>
            /\ sh_half' = TRUE
            /\ sh_cwd' = IF Head(sh_jobs).cd # "" THEN Head(sh_jobs).cd ELSE sh_cwd
            /\ UNCHANGED <<sh_alive, sh_jobs>>
    /\ UNCHANGED <<bs_pc, _initialized, _cwd, last_command, prev_command, username,
                   NO_CHANGE_TIMEOUT_SECONDS, child_buffer, cur, sent, elapsed,
                   idle_for, received, bs_obs, n_exec>>

\* the rest of the prompt reaches the pty
ShellPromptEnd ==
    /\ UNCHANGED <<exec_vars, edit_vars, more_vars, extra_vars, kernel_vars, pending>>
    /\ sh_half
    /\ pty' = Append(pty, PE)
    /\ sh_half' = FALSE
    /\ sh_jobs' = Tail(sh_jobs)
    /\ UNCHANGED <<bs_pc, _initialized, _cwd, last_command, prev_command, username,
                   NO_CHANGE_TIMEOUT_SECONDS, child_buffer, cur, sent, elapsed,
                   idle_for, received, bs_obs, n_exec, sh_alive, sh_cwd>>

\* time passes while nothing is ready to be written or read
Tick ==
    /\ UNCHANGED <<exec_vars, edit_vars, more_vars, extra_vars, kernel_vars, pending>>
    /\ bs_pc = "expecting"
    /\ elapsed < SpawnTimeout
    /\ ~ShellDue /\ ~sh_half
    /\ pty = <<>>
    /\ ~HasMatch(child_buffer)
    /\ elapsed' = elapsed + TickSeconds
    /\ idle_for' = idle_for + TickSeconds
    /\ sh_jobs' = IF sh_jobs # <<>> /\ Head(sh_jobs).left > 0
                  THEN [sh_jobs EXCEPT ![1].left = Max(0, @ - TickSeconds)]
                  ELSE sh_jobs
    /\ pty' = IF sh_jobs # <<>> /\ Head(sh_jobs).noisy THEN <<"o">> ELSE pty
    /\ UNCHANGED <<bs_pc, _initialized, _cwd, last_command, prev_command, username,
                   NO_CHANGE_TIMEOUT_SECONDS, child_buffer, cur, sent, received,
                   bs_obs, n_exec, sh_alive, sh_cwd, sh_half>>

\* ActionExecutor.run_ipython, lines 314-345, with chdir (249-260): when the
\* session's cwd differs from the directory last given to the kernel, the
\* kernel is told to change to it; then the cell is submitted
RunIPython ==
    /\ UNCHANGED <<exec_vars, edit_vars, more_vars, extra_vars, pending>>
    /\ bs_pc = "ready"
    /\ _initialized
    /\ n_cells < MaxCells
    /\ n_cells' = n_cells + 1
    /\ IF _cwd # _jupyter_cwd
       THEN /\ kernel_cwd' = _cwd
            /\ _jupyter_cwd' = _cwd
       ELSE UNCHANGED <<kernel_cwd, _jupyter_cwd>>
    /\ UNCHANGED <<bs_pc, _initialized, _cwd, last_command, prev_command, username,
                   NO_CHANGE_TIMEOUT_SECONDS, child_buffer, cur, sent, elapsed,
                   idle_for, received, bs_obs, n_exec, sh_alive, sh_cwd, sh_jobs,
                   sh_half, pty>>

BashNext ==
    \/ initialize
    \/ execute
    \/ ExpectRead
    \/ ExpectMatch
    \/ ExpectTimeout
    \/ ExpectEOF
    \/ BashReturn
    \/ ShellFinish
    \/ ShellPromptEnd
    \/ Tick
    \/ RunIPython

-----------------------------------------------------------------------------
(* action_execution_server.py: ActionExecutor.ainit (140-179) with          *)
(* _init_plugin (185-196), run under the server's lifespan (639-651), and   *)
(* the endpoints GET /alive (806-810) and POST /execute_action (705-720).   *)
(* A plugin's task is "idle" until it starts, "running" inside              *)
(* plugin.initialize, "registered" once self.plugins holds it and the       *)
(* jupyter chdir cell is in flight, then "done", "failed" or "cancelled".   *)

AllPlugins == {"jupyter", "agent_skills", "vscode"}

\* wait_all(..., timeout=30)
PluginInitTimeout == 30

NoTasks == [p \in AllPlugins |-> "idle"]

Pending(p) == p \in plugins_to_load /\ plugin_task[p] \in {"idle", "running", "registered"}

\* openhands.utils.async_utils.wait_all: one task per coroutine, one overall
\* timeout; it returns when every task returned, raises when one raised, and
\* cancels what is left and raises TimeoutError when the time is up
wait_all(task_states, seconds, timeout) ==
    IF \A s \in task_states : s \in {"done", "failed"}
    THEN (IF "failed" \in task_states THEN "raise" ELSE "return")
    ELSE IF seconds >= timeout THEN "TimeoutError"
    ELSE "pending"

\* lines 154-160: ainit goes on after wait_all returned; an exception leaves
\* ainit, which has no handler
AfterWaitAll_Swallow(result) == "image_import"
AfterWaitAll(result) == IF result = "return" THEN "image_import" ELSE "failed"

\* lines 151-157: the _init_plugin coroutines are created and awaited after
\* bash_session.initialize() returned
PluginsMayStart_Early == ai_pc \in {"bash_init", "wait_all"}
PluginsMayStart == ai_pc = "wait_all"

\* lifespan: requests are served after `await client.ainit()` returned
Serving == ai_pc = "done"

AinitInit ==
    /\ ai_pc = "new"
    /\ ai_bash_session = "None"
    /\ plugins_to_load \in SUBSET AllPlugins
    /\ plugin_task = NoTasks
    /\ ai_plugins = {}
    /\ executor_initialized = FALSE
    /\ wait_elapsed = 0
    /\ cells_sent = 0
    /\ alive_status = "none"
    /\ served_with = {}

\* lines 143-150: BashSession(work_dir=, username=, no_change_timeout_seconds=,
\* max_memory_mb=). BashSession.__init__ of bash_pexpect.py (156-161) has no
\* max_memory_mb parameter and answers the call with TypeError; the outcome of
\* a constructor that takes the argument is kept beside it
AinitConstruct ==
    /\ UNCHANGED <<extra_vars, exec_vars, edit_vars, bash_vars, ipython_vars, parser_vars, stuck_vars>>
    /\ ai_pc = "new"
    /\ \/ /\ ai_bash_session' = "constructed"
          /\ ai_pc' = "bash_init"
       \/ /\ ai_pc' = "failed"
          /\ UNCHANGED ai_bash_session
    /\ UNCHANGED <<plugins_to_load, plugin_task, ai_plugins, executor_initialized,
                   wait_elapsed, cells_sent, alive_status, served_with>>

\* line 151: bash_session.initialize() returns, or one of its child.expect
\* calls raises
AinitBashInitialize ==
    /\ UNCHANGED <<extra_vars, exec_vars, edit_vars, bash_vars, ipython_vars, parser_vars, stuck_vars>>
    /\ ai_pc = "bash_init"
    /\ \/ /\ ai_bash_session' = "initialized"
          /\ ai_pc' = "wait_all"
       \/ /\ ai_pc' = "failed"
          /\ UNCHANGED ai_bash_session
    /\ wait_elapsed' = 0
    /\ UNCHANGED <<plugins_to_load, plugin_task, ai_plugins, executor_initialized,
                   cells_sent, alive_status, served_with>>

\* lines 186-188: a plugin's task starts and calls plugin.initialize
PluginStart(p) ==
    /\ UNCHANGED <<extra_vars, exec_vars, edit_vars, bash_vars, ipython_vars, parser_vars, stuck_vars>>
    /\ PluginsMayStart
    /\ p \in plugins_to_load
    /\ plugin_task[p] = "idle"
    /\ plugin_task' = [plugin_task EXCEPT ![p] = "running"]
    /\ UNCHANGED <<ai_pc, ai_bash_session, plugins_to_load, ai_plugins,
                   executor_initialized, wait_elapsed, cells_sent, alive_status,
                   served_with>>

\* lines 188-196: plugin.initialize returned; the plugin is registered, and
\* for the jupyter plugin the chdir cell goes to the kernel
PluginRegister(p) ==
    /\ UNCHANGED <<extra_vars, exec_vars, edit_vars, bash_vars, ipython_vars, parser_vars, stuck_vars>>
    /\ ai_pc = "wait_all"
    /\ plugin_task[p] = "running"
    /\ ai_plugins' = ai_plugins \cup {p}
    /\ IF p = "jupyter"
       THEN /\ plugin_task' = [plugin_task EXCEPT ![p] = "registered"]
            /\ cells_sent' = cells_sent + 1
       ELSE /\ plugin_task' = [plugin_task EXCEPT ![p] = "done"]
            /\ UNCHANGED cells_sent
    /\ UNCHANGED <<ai_pc, ai_bash_session, plugins_to_load, executor_initialized,
                   wait_elapsed, alive_status, served_with>>

\* lines 192-196: the chdir cell returns, or the kernel call raises
PluginCellDone(p) ==
    /\ UNCHANGED <<extra_vars, exec_vars, edit_vars, bash_vars, ipython_vars, parser_vars, stuck_vars>>
    /\ ai_pc = "wait_all"
    /\ plugin_task[p] = "registered"
    /\ \E outcome \in {"done", "failed"} :
          plugin_task' = [plugin_task EXCEPT ![p] = outcome]
    /\ UNCHANGED <<ai_pc, ai_bash_session, plugins_to_load, ai_plugins,
                   executor_initialized, wait_elapsed, cells_sent, alive_status,
                   served_with>>

\* line 188: plugin.initialize raises
PluginFail(p) ==
    /\ UNCHANGED <<extra_vars, exec_vars, edit_vars, bash_vars, ipython_vars, parser_vars, stuck_vars>>
    /\ ai_pc = "wait_all"
    /\ plugin_task[p] = "running"
    /\ plugin_task' = [plugin_task EXCEPT ![p] = "failed"]
    /\ UNCHANGED <<ai_pc, ai_bash_session, plugins_to_load, ai_plugins,
                   executor_initialized, wait_elapsed, cells_sent, alive_status,
                   served_with>>

\* time passes while ainit waits in wait_all
InitTick ==
    /\ UNCHANGED <<extra_vars, exec_vars, edit_vars, bash_vars, ipython_vars, parser_vars, stuck_vars>>
    /\ ai_pc = "wait_all"
    /\ wait_elapsed < PluginInitTimeout
    /\ \E p \in AllPlugins : Pending(p)
    /\ wait_elapsed' = Min(PluginInitTimeout, wait_elapsed + TickSeconds)
    /\ UNCHANGED <<ai_pc, ai_bash_session, plugins_to_load, plugin_task, ai_plugins,
                   executor_initialized, cells_sent, alive_status, served_with>>

\* lines 154-158: wait_all returns or raises
WaitAllReturn ==
    /\ UNCHANGED <<extra_vars, exec_vars, edit_vars, bash_vars, ipython_vars, parser_vars, stuck_vars>>
    /\ ai_pc = "wait_all"
    /\ LET result == wait_all({plugin_task[p] : p \in plugins_to_load},
                              wait_elapsed, PluginInitTimeout)
       IN /\ result # "pending"
          /\ ai_pc' = AfterWaitAll(result)
          /\ plugin_task' = [p \in AllPlugins |->
                                IF result = "TimeoutError" /\ Pending(p)
                                THEN "cancelled" ELSE plugin_task[p]]
    /\ UNCHANGED <<ai_bash_session, plugins_to_load, ai_plugins,
                   executor_initialized, wait_elapsed, cells_sent, alive_status,
                   served_with>>

\* lines 160-162 with run_ipython's lines 316, 423-426: the Image import cell,
\* or RuntimeError when no jupyter plugin is registered
ImageImport ==
    /\ UNCHANGED <<extra_vars, exec_vars, edit_vars, bash_vars, ipython_vars, parser_vars, stuck_vars>>
    /\ ai_pc = "image_import"
    /\ IF "jupyter" \in ai_plugins
       THEN /\ cells_sent' = cells_sent + 1
            /\ ai_pc' = "agent_skills"
       ELSE /\ ai_pc' = "failed"
            /\ UNCHANGED cells_sent
    /\ UNCHANGED <<ai_bash_session, plugins_to_load, plugin_task, ai_plugins,
                   executor_initialized, wait_elapsed, alive_status, served_with>>

\* lines 167-174: the agent_skills import cell when both plugins are there
AgentSkillsInit ==
    /\ UNCHANGED <<extra_vars, exec_vars, edit_vars, bash_vars, ipython_vars, parser_vars, stuck_vars>>
    /\ ai_pc = "agent_skills"
    /\ cells_sent' = IF {"agent_skills", "jupyter"} \subseteq ai_plugins
                     THEN cells_sent + 1 ELSE cells_sent
    /\ ai_pc' = "bash_commands"
    /\ UNCHANGED <<ai_bash_session, plugins_to_load, plugin_task, ai_plugins,
                   executor_initialized, wait_elapsed, alive_status, served_with>>

\* lines 177-179 with _init_bash_commands (198-232): the commands run and
\* _initialized is set, or a command's execute raises
InitBashCommands ==
    /\ UNCHANGED <<extra_vars, exec_vars, edit_vars, bash_vars, ipython_vars, parser_vars, stuck_vars>>
    /\ ai_pc = "bash_commands"
    /\ \/ /\ executor_initialized' = TRUE
          /\ ai_pc' = "done"
       \/ /\ ai_pc' = "failed"
          /\ UNCHANGED executor_initialized
    /\ UNCHANGED <<ai_bash_session, plugins_to_load, plugin_task, ai_plugins,
                   wait_elapsed, cells_sent, alive_status, served_with>>

\* GET /alive
alive ==
    /\ UNCHANGED <<extra_vars, exec_vars, edit_vars, bash_vars, ipython_vars, parser_vars, stuck_vars>>
    /\ Serving
    /\ alive_status' = IF executor_initialized THEN "ok" ELSE "not initialized"
    /\ UNCHANGED <<ai_pc, ai_bash_session, plugins_to_load, plugin_task, ai_plugins,
                   executor_initialized, wait_elapsed, cells_sent, served_with>>

\* POST /execute_action: an action runs with the plugins registered by then
execute_action ==
    /\ UNCHANGED <<extra_vars, exec_vars, edit_vars, bash_vars, ipython_vars, parser_vars, stuck_vars>>
    /\ Serving
    /\ served_with' = served_with \cup {ai_plugins}
    /\ UNCHANGED <<ai_pc, ai_bash_session, plugins_to_load, plugin_task, ai_plugins,
                   executor_initialized, wait_elapsed, cells_sent, alive_status>>

AinitNext ==
    \/ AinitConstruct
    \/ AinitBashInitialize
    \/ \E p \in AllPlugins : PluginStart(p)
    \/ \E p \in AllPlugins : PluginRegister(p)
    \/ \E p \in AllPlugins : PluginCellDone(p)
    \/ \E p \in AllPlugins : PluginFail(p)
    \/ InitTick
    \/ WaitAllReturn
    \/ ImageImport
    \/ AgentSkillsInit
    \/ InitBashCommands
    \/ alive
    \/ execute_action

-----------------------------------------------------------------------------
(* action_execution_server.py: ActionExecutor.run_ipython, lines 324-422,   *)
(* for an executor whose jupyter plugin is registered.                      *)
(* A cell's output and an observation's content are sequences of pieces:    *)
(* a piece is a stretch of plain text, one <oh_aci_output_...> element with *)
(* its payload, or a line that run_ipython wrote itself.                    *)

MaxRuns == 2

Null == "null"

TracebackLine == "Traceback (most recent call last)"
ErrorWithTraceback == "ERROR: Traceback (most recent call last) ..."

\* the texts that hold the words 'Traceback (most recent call last)'
TracebackTexts == {TracebackLine, ErrorWithTraceback}

Hint == "[Hint: Use search_in_stack_overflow(error_message) to search for solutions.]"

Piece(kind, text, json_ok, path, new, fmt) ==
    [kind |-> kind, text |-> text, json_ok |-> json_ok, path |-> path,
     new_content |-> new, formatted_output_and_error |-> fmt]

Text(s) == Piece("text", s, FALSE, "", Null, "")

\* one marker element whose payload is a JSON object with the keys path,
\* new_content and formatted_output_and_error
Marker(path, new, fmt) == Piece("marker", "", TRUE, path, new, fmt)

\* one marker element whose payload is not JSON
BadMarker(raw) == Piece("marker", raw, FALSE, "", Null, "")

\* the line "Invalid JSON in 'openhands-aci' output: " followed by the match
InvalidJSON(m) == Piece("invalid_json", m.text, FALSE, "", Null, "")

\* 'Traceback (most recent call last)' in content
HasTraceback(c) ==
    \E i \in 1..Len(c) :
        \/ c[i].text \in TracebackTexts
        \/ c[i].formatted_output_and_error \in TracebackTexts

Codes == {"print(1)", "!pip install x", "%%writefile /tmp/test_task.py", "open_file('f')"}

NotSent == "<not sent>"

KernelOutputs ==
    { <<Text("1")>>,
      <<Text(TracebackLine)>>,
      <<Text("Successfully installed x")>>,
      <<Text("Requirement already satisfied: x")>>,
      <<Marker("/f", Null, "view of f")>>,
      <<Marker("/f", "new text", "edited f")>>,
      <<Marker("", Null, "ERROR: no such file")>>,
      <<Marker("", Null, ErrorWithTraceback)>>,
      <<BadMarker("{oops")>>,
      <<Marker("/f", Null, "view of f"), Marker("/f", "new text", "edited f")>>,
      <<Marker("", Null, "ERROR: no such file"), BadMarker("{oops")>>,
      <<Text(TracebackLine), Marker("/f", Null, "view of f")>>,
      <<Text(TracebackLine), Marker("", Null, "ERROR: no such file")>>,
      <<Text("Successfully installed x"), Marker("/f", Null, "view of f")>> }

IPyObservation(kind, c, path) == [kind |-> kind, content |-> c, path |-> path]

NoCell == [code |-> "", sent |-> NotSent, output |-> <<>>,
           obs |-> IPyObservation("none", <<>>, "")]

\* lines 324-340: the calls answered without running the cell
Rejected(code) ==
    \/ code = "%%writefile /tmp/test_task.py"
    \/ executor_username = "root" /\ code = last_code /\ is_last_code_error

\* line 344: action.code.replace('!pip', '%pip')
PipRewrite(code) == IF code = "!pip install x" THEN "%pip install x" ELSE code

\* 'pip install' in action.code
IsPipInstall(code) == code \in {"!pip install x", "%pip install x"}

HasText(c, s) == \E i \in 1..Len(c) : c[i].kind = "text" /\ c[i].text = s

\* lines 287-312
parse_pip_output(code, output) ==
    IF HasText(output, "Successfully installed x")
    THEN <<Text("[Package installed successfully]")>>
    ELSE IF HasText(output, "Requirement already satisfied: x")
    THEN <<Text("[Package already installed]")>>
    ELSE output

\* lines 349-353: re.findall of the marker pattern
Matches_First(c) ==
    LET ms == SelectSeq(c, LAMBDA p : p.kind = "marker")
    IN IF ms = <<>> THEN <<>> ELSE <<Head(ms)>>
Matches(c) == SelectSeq(c, LAMBDA p : p.kind = "marker")

\* lines 390-405: what one match adds to `results`
ResultOf(m) ==
    IF m.json_ok THEN Text(m.formatted_output_and_error) ELSE InvalidJSON(m)

\* lines 345-422 for the submitted code and the kernel's output: the
\* observation returned, and whether lines 409-410 were reached
AfterKernel(submitted, output) ==
    LET c1 == IF IsPipInstall(submitted) THEN parse_pip_output(submitted, output)
              ELSE output
        ms == Matches(c1)
        one == Len(ms) = 1 /\ ms[1].json_ok /\ ms[1].path # ""
        c2 == IF ms = <<>> THEN c1 ELSE [i \in 1..Len(ms) |-> ResultOf(ms[i])]
        c3 == IF executor_username # "root" /\ HasTraceback(c2)
              THEN Append(c2, Text(Hint)) ELSE c2
    IN IF one
       THEN [recorded |-> FALSE, error |-> FALSE,
             obs |-> IF ms[1].new_content # Null
                     THEN IPyObservation("FileEditObservation", <<>>, ms[1].path)
                     ELSE IPyObservation("FileReadObservation",
                                         <<Text(ms[1].formatted_output_and_error)>>,
                                         ms[1].path)]
       ELSE [recorded |-> TRUE, error |-> HasTraceback(c2),
             obs |-> IPyObservation("IPythonRunCellObservation", c3, "")]

IPythonInit ==
    /\ executor_username \in {"root", "openhands"}
    /\ last_code = ""
    /\ is_last_code_error = FALSE
    /\ cell = NoCell
    /\ n_runs = 0

\* one call of run_ipython
run_ipython_cell ==
    /\ UNCHANGED <<extra_vars, exec_vars, edit_vars, bash_vars, init_vars, parser_vars, stuck_vars>>
    /\ n_runs < MaxRuns
    /\ n_runs' = n_runs + 1
    /\ \E code \in Codes :
          IF Rejected(code)
          THEN /\ cell' = [code |-> code, sent |-> NotSent, output |-> <<>>,
                           obs |-> IPyObservation("ErrorObservation", <<>>, "")]
               /\ UNCHANGED <<last_code, is_last_code_error>>
          ELSE \E output \in KernelOutputs :
                  LET r == AfterKernel(PipRewrite(code), output)
                  IN /\ cell' = [code |-> code, sent |-> PipRewrite(code),
                                 output |-> output, obs |-> r.obs]
                     /\ last_code' = IF r.recorded THEN PipRewrite(code) ELSE last_code
                     /\ is_last_code_error' = IF r.recorded THEN r.error
                                              ELSE is_last_code_error
    /\ UNCHANGED executor_username

IPythonNext == run_ipython_cell

-----------------------------------------------------------------------------
(* codeact_agent/action_parser.py: CodeActResponseParser.                   *)
(* A response is a sequence of tokens: an opening tag, a closing tag, or a  *)
(* stretch of text without tags, backticks, <think>, <finish>, <end> or     *)
(* <file_edit.                                                              *)

MaxBlocks == 3

Langs == {"bash", "ipython", "browse"}

OpenTag(lang) ==
    CASE lang = "bash" -> "<execute_bash>"
      [] lang = "ipython" -> "<execute_ipython>"
      [] lang = "browse" -> "<execute_browse>"

CloseTag(lang) ==
    CASE lang = "bash" -> "</execute_bash>"
      [] lang = "ipython" -> "</execute_ipython>"
      [] lang = "browse" -> "</execute_browse>"

\* the text of the block at each position of a response
Bodies == <<"one", "two", "three", "four">>

BlockKinds == Langs \cup {"text"}

Block(kind, i) ==
    IF kind = "text" THEN <<Bodies[i]>>
    ELSE <<OpenTag(kind), Bodies[i], CloseTag(kind)>>

RECURSIVE Blocks(_, _)
\* the response made of the blocks kinds[i..]
Blocks(kinds, i) ==
    IF i > Len(kinds) THEN <<>> ELSE Block(kinds[i], i) \o Blocks(kinds, i + 1)

\* the LLM responses: up to MaxBlocks blocks, whole or cut before the last
\* closing tag (the stop word)
Responses ==
    LET whole == { Blocks(k, 1) : k \in UNION { [1..n -> BlockKinds] : n \in 0..MaxBlocks } }
    IN whole \cup { SubSeq(r, 1, Len(r) - 1) :
                      r \in { w \in whole : w # <<>> /\ w[Len(w)] \in {CloseTag(l) : l \in Langs} } }

\* lines 60-68 of parse_response: a block left open is closed
CloseOpenBlock(s, lang) ==
    IF Occurs(s, OpenTag(lang)) /\ ~Occurs(s, CloseTag(lang))
    THEN Append(s, CloseTag(lang)) ELSE s

\* lines 48-76
parse_response(s) ==
    CloseOpenBlock(CloseOpenBlock(CloseOpenBlock(s, "bash"), "ipython"), "browse")

\* positions of a tag
Positions(s, tag) == {i \in 1..Len(s) : s[i] = tag}

SetMin(S) == CHOOSE x \in S : \A y \in S : x <= y
SetMax(S) == CHOOSE x \in S : \A y \in S : x >= y

NoMatch == [found |-> FALSE, from |-> 0, to |-> 0]

\* re.search(r'<execute_X>(.*?)</execute_X>', s, re.DOTALL): the leftmost
\* opening tag that a closing tag follows, up to the nearest closing tag
SearchLazy(s, lang) ==
    LET opens == {i \in Positions(s, OpenTag(lang)) :
                     \E j \in Positions(s, CloseTag(lang)) : j > i}
    IN IF opens = {} THEN NoMatch
       ELSE LET i == SetMin(opens)
            IN [found |-> TRUE, from |-> i,
                to |-> SetMin({j \in Positions(s, CloseTag(lang)) : j > i})]

\* re.search(r'<execute_ipython>(.*\S.*?)</execute_ipython>', s, re.DOTALL):
\* the leftmost opening tag with text and a closing tag after it; the greedy
\* .* runs to the last closing tag that has text before it
SearchGreedy(s, lang) ==
    LET opens == {i \in Positions(s, OpenTag(lang)) :
                     \E j \in Positions(s, CloseTag(lang)) : j > i + 1}
    IN IF opens = {} THEN NoMatch
       ELSE LET i == SetMin(opens)
            IN [found |-> TRUE, from |-> i,
                to |-> SetMax({j \in Positions(s, CloseTag(lang)) : j > i + 1})]

\* match.group(1), and action_str.replace(match.group(0), '')
Group1(s, m) == SubSeq(s, m.from + 1, m.to - 1)
Thought(s, m) == SubSeq(s, 1, m.from - 1) \o SubSeq(s, m.to + 1, Len(s))

ParsedAction(kind, body, thought) == [kind |-> kind, body |-> body, thought |-> thought]

NoParsed == ParsedAction("none", <<>>, <<>>)

\* lines 78-82 with the parsers in the order of lines 35-41: FileEdit (no
\* '<file_edit' in these responses), IPythonRunCell, CmdRun, AgentDelegate,
\* Finish (no <finish> or <end>), then the default Message parser
parse_action(s) ==
    IF SearchGreedy(s, "ipython").found
    THEN ParsedAction("IPythonRunCellAction", Group1(s, SearchGreedy(s, "ipython")),
                      Thought(s, SearchGreedy(s, "ipython")))
    ELSE IF SearchLazy(s, "bash").found
    THEN ParsedAction("CmdRunAction", Group1(s, SearchLazy(s, "bash")),
                      Thought(s, SearchLazy(s, "bash")))
    ELSE IF SearchLazy(s, "browse").found
    THEN ParsedAction("AgentDelegateAction", Group1(s, SearchLazy(s, "browse")),
                      Thought(s, SearchLazy(s, "browse"))
                          \o <<"I should start with: ">>
                          \o Group1(s, SearchLazy(s, "browse")))
    ELSE ParsedAction("MessageAction", s, <<>>)

ParserInit ==
    /\ response \in Responses
    /\ parsed = NoParsed

\* lines 44-46: parse(response)
parse ==
    /\ UNCHANGED <<extra_vars, exec_vars, edit_vars, bash_vars, init_vars, ipython_vars, stuck_vars>>
    /\ parsed = NoParsed
    /\ parsed' = parse_action(parse_response(response))
    /\ UNCHANGED response

ParserNext == parse

-----------------------------------------------------------------------------
(* controller/stuck.py: StuckDetector.is_stuck over state.history.          *)
(* An event is a record of its class, its source and the fields the         *)
(* comparisons read; an IPython cell's code is the list of its lines.       *)

MaxHistory == 4

Event(cls, source, code, command, exit_code, content) ==
    [cls |-> cls, source |-> source, code |-> code, command |-> command,
     exit_code |-> exit_code, content |-> content]

ActionClasses == {"CmdRunAction", "IPythonRunCellAction", "MessageAction", "NullAction"}
ObservationClasses == {"CmdOutputObservation", "ErrorObservation", "NullObservation",
                       "AgentCondensationObservation"}

IsAction(e) == e.cls \in ActionClasses
IsObservation(e) == e.cls \in ObservationClasses

EditOneLine == <<"edit_file_by_replace('f', 'a', 'b')">>
EditFourLines == <<"edit_file_by_replace(", "'f',", "'a',", "'b')">>

\* 'edit_file_by_replace(' in code
HasEditCall(code) ==
    \E i \in 1..Len(code) :
        code[i] \in {"edit_file_by_replace(", "edit_file_by_replace('f', 'a', 'b')"}

HistoryEvents ==
    { Event("CmdRunAction", "agent", <<>>, "ls", 0, ""),
      Event("IPythonRunCellAction", "agent", EditOneLine, "", 0, ""),
      Event("IPythonRunCellAction", "agent", EditFourLines, "", 0, ""),
      Event("MessageAction", "user", <<>>, "", 0, "go on"),
      Event("MessageAction", "agent", <<>>, "", 0, "hm"),
      Event("NullAction", "agent", <<>>, "", 0, ""),
      Event("CmdOutputObservation", "environment", <<>>, "ls", 0, "a.txt"),
      Event("CmdOutputObservation", "environment", <<>>, "ls", 0, "a.txt b.txt"),
      Event("ErrorObservation", "environment", <<>>, "", 0, "error"),
      Event("NullObservation", "environment", <<>>, "", 0, "") }

IsUserMessage(e) == e.cls = "MessageAction" /\ e.source = "user"
IsNull(e) == e.cls \in {"NullAction", "NullObservation"}

Reverse(s) == [i \in 1..Len(s) |-> s[Len(s) + 1 - i]]

\* lines 93-107: the whole history, or what follows the last user message
history_to_check(h, headless_mode) ==
    IF headless_mode \/ ~\E i \in 1..Len(h) : IsUserMessage(h[i]) THEN h
    ELSE SubSeq(h, SetMax({i \in 1..Len(h) : IsUserMessage(h[i])}) + 1, Len(h))

\* lines 110-121
filtered_history(h) == SelectSeq(h, LAMBDA e : ~(IsUserMessage(e) \/ IsNull(e)))

\* lines 62-80: the last n actions and the last n observations, latest first
get_last_event_pairs(h, n) ==
    IF Len(h) < n THEN [last_actions |-> <<>>, last_observations |-> <<>>]
    ELSE [last_actions |-> SliceTo(Reverse(SelectSeq(h, IsAction)), n),
          last_observations |-> SliceTo(Reverse(SelectSeq(h, IsObservation)), n)]

\* lines 416-440
_eq_no_pid_Strict(obj1, obj2) == obj1 = obj2
_eq_no_pid(obj1, obj2) ==
    IF obj1.cls = "IPythonRunCellAction" /\ obj2.cls = "IPythonRunCellAction"
    THEN IF HasEditCall(obj1.code) /\ HasEditCall(obj2.code)
         THEN Len(obj1.code) > 2 /\ SliceTo(obj1.code, 3) = SliceTo(obj2.code, 3)
         ELSE obj1 = obj2
    ELSE IF obj1.cls = "CmdOutputObservation" /\ obj2.cls = "CmdOutputObservation"
    THEN obj1.command = obj2.command /\ obj1.exit_code = obj2.exit_code
    ELSE obj1 = obj2

\* lines 160-177
_is_stuck_repeating_action_observation(last_actions, last_observations) ==
    /\ \A i \in 1..Len(last_actions) : _eq_no_pid(last_actions[1], last_actions[i])
    /\ \A i \in 1..Len(last_observations) :
          _eq_no_pid(last_observations[1], last_observations[i])

\* lines 179-228; the branch for three IPythonRunCellObservations with a
\* syntax error needs observations these histories do not hold
_is_stuck_repeating_action_error(last_actions, last_observations) ==
    /\ Len(last_actions) >= 3
    /\ Len(last_observations) >= 3
    /\ \A i \in 1..3 : _eq_no_pid(last_actions[1], last_actions[i])
    /\ \A i \in 1..3 : last_observations[i].cls = "ErrorObservation"

\* lines 302-334
_is_stuck_monologue(h) ==
    LET idx == {i \in 1..Len(h) : h[i].cls = "MessageAction" /\ h[i].source = "agent"}
    IN /\ Cardinality(idx) >= 3
       /\ LET last3 == {i \in idx : Cardinality({j \in idx : j >= i}) <= 3}
              first == SetMin(last3)
          IN /\ \A i \in last3 : h[first] = h[i]
             /\ ~\E k \in (first + 1)..(SetMax(last3) - 1) : IsObservation(h[k])

\* lines 336-366
_is_stuck_action_observation_pattern(a, o) ==
    /\ Len(a) = 6
    /\ Len(o) = 6
    /\ _eq_no_pid(a[1], a[3]) /\ _eq_no_pid(a[1], a[5])
    /\ _eq_no_pid(a[2], a[4]) /\ _eq_no_pid(a[2], a[6])
    /\ _eq_no_pid(o[1], o[3]) /\ _eq_no_pid(o[1], o[5])
    /\ _eq_no_pid(o[2], o[4]) /\ _eq_no_pid(o[2], o[6])

\* lines 368-414
_is_stuck_context_window_error(h) ==
    LET idx == {i \in 1..Len(h) : h[i].cls = "AgentCondensationObservation"}
    IN /\ Cardinality(idx) >= 10
       /\ LET last10 == {i \in idx : Cardinality({j \in idx : j >= i}) <= 10}
          IN \E i \in last10 : i + 1 \in last10

\* lines 82-158: whether the call reports a loop
is_stuck(h, headless_mode) ==
    LET f == filtered_history(history_to_check(h, headless_mode))
        two == get_last_event_pairs(f, 2)
        four == get_last_event_pairs(f, 4)
    IN IF ~(Len(two.last_actions) = 2 /\ Len(two.last_observations) = 2) THEN FALSE
       ELSE IF _is_stuck_repeating_action_observation(two.last_actions,
                                                       two.last_observations) THEN TRUE
       ELSE IF _is_stuck_repeating_action_error(two.last_actions,
                                                 two.last_observations) THEN TRUE
       ELSE IF _is_stuck_monologue(f) THEN TRUE
       ELSE IF ~(Len(four.last_actions) = 4 /\ Len(four.last_observations) = 4) THEN FALSE
       ELSE IF _is_stuck_action_observation_pattern(four.last_actions,
                                                     four.last_observations) THEN TRUE
       ELSE Len(f) >= 10 /\ _is_stuck_context_window_error(f)

NoVerdict == [called |-> FALSE, headless_mode |-> TRUE, result |-> FALSE]

StuckInit ==
    /\ history = <<>>
    /\ stuck = NoVerdict

\* the controller appends an event to state.history
AddEvent ==
    /\ UNCHANGED <<extra_vars, exec_vars, edit_vars, bash_vars, init_vars, ipython_vars, parser_vars>>
    /\ Len(history) < MaxHistory
    /\ \E e \in HistoryEvents : history' = Append(history, e)
    /\ stuck' = NoVerdict

\* the controller calls is_stuck(headless_mode)
IsStuckCall ==
    /\ UNCHANGED <<extra_vars, exec_vars, edit_vars, bash_vars, init_vars, ipython_vars, parser_vars>>
    /\ \E headless_mode \in BOOLEAN :
          stuck' = [called |-> TRUE, headless_mode |-> headless_mode,
                    result |-> is_stuck(history, headless_mode)]
    /\ UNCHANGED history

StuckNext ==
    \/ AddEvent
    \/ IsStuckCall

-----------------------------------------------------------------------------
(* runtime/utils/system.py: find_available_tcp_port, called from several    *)
(* threads of one process. Other processes bind and release ports freely.   *)

NumCallers == 2

Callers == 1..NumCallers

\* range(min_port, max_port + 1)
PortRange == {30000, 30001}

MaxAttempts == {1, 2}

\* rng.shuffle(ports); ports[:max_attempts]
Shuffled(max_attempts) ==
    { s \in UNION { [1..n -> PortRange] : n \in 0..max_attempts } :
        /\ Len(s) = Min(max_attempts, Cardinality(PortRange))
        /\ \A i, j \in 1..Len(s) : i # j => s[i] # s[j] }

NoPortCall == [pc |-> "idle", ports |-> <<>>, i |-> 0, ok |-> FALSE, free |-> FALSE,
               refused_free |-> FALSE, result |-> 0]

\* _port_lock is held by no thread
LockFree_Always == TRUE
LockFree == _port_lock = 0

\* port not in allocated_ports and check_port_available(port)
CanTake(port) == port \notin allocated_ports /\ port \in bindable

PortsInit ==
    /\ _port_lock = 0
    /\ allocated_ports = {}
    /\ bindable \in SUBSET PortRange
    /\ fc = [c \in Callers |-> NoPortCall]

\* lines 35-38: the call shuffles the range and keeps max_attempts candidates
find_available_tcp_port(c) ==
    /\ UNCHANGED <<exec_vars, edit_vars, bash_vars, more_vars, agent_vars, connect_vars>>
    /\ fc[c].pc = "idle"
    /\ \E max_attempts \in MaxAttempts : \E s \in Shuffled(max_attempts) :
          fc' = [fc EXCEPT ![c] = [NoPortCall EXCEPT !.pc = "loop", !.ports = s, !.i = 1]]
    /\ UNCHANGED <<_port_lock, allocated_ports, bindable>>

\* line 41: with _port_lock
PortAcquire(c) ==
    /\ UNCHANGED <<exec_vars, edit_vars, bash_vars, more_vars, agent_vars, connect_vars>>
    /\ fc[c].pc = "loop"
    /\ fc[c].i <= Len(fc[c].ports)
    /\ LockFree
    /\ _port_lock' = c
    /\ fc' = [fc EXCEPT ![c].pc = "locked"]
    /\ UNCHANGED <<allocated_ports, bindable>>

\* line 42: the test of the candidate
PortCheck(c) ==
    /\ UNCHANGED <<exec_vars, edit_vars, bash_vars, more_vars, agent_vars, connect_vars>>
    /\ fc[c].pc = "locked"
    /\ LET port == fc[c].ports[fc[c].i]
       IN fc' = [fc EXCEPT ![c].pc = "checked",
                           ![c].ok = CanTake(port),
                           ![c].free = port \notin allocated_ports /\ port \in bindable]
    /\ UNCHANGED <<_port_lock, allocated_ports, bindable>>

\* lines 43-44: the port is recorded and returned; the lock is released
PortTake(c) ==
    /\ UNCHANGED <<exec_vars, edit_vars, bash_vars, more_vars, agent_vars, connect_vars>>
    /\ fc[c].pc = "checked"
    /\ fc[c].ok
    /\ allocated_ports' = allocated_ports \cup {fc[c].ports[fc[c].i]}
    /\ _port_lock' = 0
    /\ fc' = [fc EXCEPT ![c].pc = "done", ![c].result = fc[c].ports[fc[c].i]]
    /\ UNCHANGED bindable

\* the candidate is refused: the lock is released and the loop goes on
PortSkip(c) ==
    /\ UNCHANGED <<exec_vars, edit_vars, bash_vars, more_vars, agent_vars, connect_vars>>
    /\ fc[c].pc = "checked"
    /\ ~fc[c].ok
    /\ _port_lock' = 0
    /\ fc' = [fc EXCEPT ![c].pc = "loop", ![c].i = fc[c].i + 1,
                        ![c].refused_free = fc[c].refused_free \/ fc[c].free]
    /\ UNCHANGED <<allocated_ports, bindable>>

\* line 45: return -1
PortGiveUp(c) ==
    /\ UNCHANGED <<exec_vars, edit_vars, bash_vars, more_vars, agent_vars, connect_vars>>
    /\ fc[c].pc = "loop"
    /\ fc[c].i > Len(fc[c].ports)
    /\ fc' = [fc EXCEPT ![c].pc = "done", ![c].result = -1]
    /\ UNCHANGED <<_port_lock, allocated_ports, bindable>>

\* another process binds a port, or closes the socket it had on one
OtherProcess(p) ==
    /\ UNCHANGED <<exec_vars, edit_vars, bash_vars, more_vars, agent_vars, connect_vars>>
    /\ bindable' = IF p \in bindable THEN bindable \ {p} ELSE bindable \cup {p}
    /\ UNCHANGED <<_port_lock, allocated_ports, fc>>

PortsNext ==
    \/ \E c \in Callers : find_available_tcp_port(c)
    \/ \E c \in Callers : PortAcquire(c)
    \/ \E c \in Callers : PortCheck(c)
    \/ \E c \in Callers : PortTake(c)
    \/ \E c \in Callers : PortSkip(c)
    \/ \E c \in Callers : PortGiveUp(c)
    \/ \E p \in PortRange : OtherProcess(p)

-----------------------------------------------------------------------------
(* codeact_agent.py: CodeActAgent.step and reset over pending_actions.      *)
(* An action of the agent is named by the LLM response it came from and its *)
(* place in that response.                                                  *)

MaxResponses == 3
MaxToolCalls == 3

AgentAction(k, i) == [response |-> k, index |-> i]

NoAgentAction == AgentAction(0, 0)

\* the actions made from the k-th LLM response, a response with n tool calls
ResponseActions(k, n) == [i \in 1..n |-> AgentAction(k, i)]

\* deque.popleft()
popleft_Last(q) == [action |-> q[Len(q)], rest |-> SubSeq(q, 1, Len(q) - 1)]
popleft(q) == [action |-> Head(q), rest |-> Tail(q)]

StepOut(kind, a, llm_called, before) ==
    [kind |-> kind, action |-> a, llm_called |-> llm_called, pending_before |-> before]

NoStep == StepOut("none", NoAgentAction, FALSE, <<>>)

Elements(q) == {q[i] : i \in 1..Len(q)}

AgentInit ==
    /\ pending_actions = <<>>
    /\ function_calling \in BOOLEAN
    /\ n_llm = 0
    /\ issued = <<>>
    /\ returned = <<>>
    /\ discarded = {}
    /\ step_out = NoStep

\* lines 409-410: a queued action is returned before anything else happens
StepFromQueue ==
    /\ UNCHANGED <<exec_vars, edit_vars, bash_vars, more_vars, port_vars, connect_vars>>
    /\ pending_actions # <<>>
    /\ pending_actions' = popleft(pending_actions).rest
    /\ step_out' = StepOut("queue", popleft(pending_actions).action, FALSE, pending_actions)
    /\ returned' = Append(returned, popleft(pending_actions).action)
    /\ UNCHANGED <<function_calling, n_llm, issued, discarded>>

\* lines 413-443: the returns before the LLM is asked ('/exit', a
\* condensation, '<end></end>')
StepWithoutLLM ==
    /\ UNCHANGED <<exec_vars, edit_vars, bash_vars, more_vars, port_vars, connect_vars>>
    /\ pending_actions = <<>>
    /\ step_out' = StepOut("finish", NoAgentAction, FALSE, pending_actions)
    /\ UNCHANGED <<pending_actions, function_calling, n_llm, issued, returned, discarded>>

\* lines 496-503: the LLM is asked; with function calling every action of
\* the response is queued and the first is returned (popleft of an empty
\* deque raises IndexError), otherwise the parsed action is returned
StepWithLLM ==
    /\ UNCHANGED <<exec_vars, edit_vars, bash_vars, more_vars, port_vars, connect_vars>>
    /\ pending_actions = <<>>
    /\ n_llm < MaxResponses
    /\ n_llm' = n_llm + 1
    /\ IF function_calling
       THEN \E n \in 0..MaxToolCalls :
              LET actions == ResponseActions(n_llm + 1, n)
                  q == pending_actions \o actions
              IN /\ issued' = actions
                 /\ IF q = <<>>
                    THEN /\ pending_actions' = q
                         /\ returned' = <<>>
                         /\ step_out' = StepOut("IndexError", NoAgentAction, TRUE,
                                                pending_actions)
                    ELSE /\ pending_actions' = popleft(q).rest
                         /\ returned' = <<popleft(q).action>>
                         /\ step_out' = StepOut("llm", popleft(q).action, TRUE,
                                                pending_actions)
       ELSE /\ issued' = ResponseActions(n_llm + 1, 1)
            /\ returned' = ResponseActions(n_llm + 1, 1)
            /\ step_out' = StepOut("llm", AgentAction(n_llm + 1, 1), TRUE, pending_actions)
            /\ UNCHANGED pending_actions
    /\ UNCHANGED <<function_calling, discarded>>

\* lines 388-391
reset ==
    /\ UNCHANGED <<exec_vars, edit_vars, bash_vars, more_vars, port_vars, connect_vars>>
    /\ step_out.kind # "reset"
    /\ pending_actions' = <<>>
    /\ discarded' = discarded \cup Elements(pending_actions)
    /\ issued' = <<>>
    /\ returned' = <<>>
    /\ step_out' = StepOut("reset", NoAgentAction, FALSE, pending_actions)
    /\ UNCHANGED <<function_calling, n_llm>>

AgentNext ==
    \/ StepFromQueue
    \/ StepWithoutLLM
    \/ StepWithLLM
    \/ reset

-----------------------------------------------------------------------------
(* server/listen_socket.py: connect, lines 91-114, replaying the event      *)
(* stream to the connecting client while the stream may still grow. An      *)
(* event is its class; its id is its place in the stream, counted from 0.   *)

MaxEvents == 4

EventClasses == {"NullObservation", "RecallAction", "AgentStateChangedObservation",
                 "MessageAction"}

\* lines 101-105
Skipped_Nothing(cls) == FALSE
Skipped(cls) == cls \in {"NullAction", "NullObservation", "RecallAction", "RecallObservation"}

\* line 106
IsAgentStateChanged(cls) == cls = "AgentStateChangedObservation"

NoEvent == -1

\* openhands.events.async_event_store_wrapper: the events of the stream from
\* start_id on, in the order of their ids, until there is none left
AsyncEventStoreWrapper(stream, next_id) ==
    IF next_id >= 0 /\ next_id < Len(stream)
    THEN [exhausted |-> FALSE, cls |-> stream[next_id + 1]]
    ELSE [exhausted |-> TRUE, cls |-> ""]

ConnectInit ==
    /\ event_stream = <<>>
    /\ latest_event_id = -1
    /\ cursor = 0
    /\ emitted = <<>>
    /\ agent_state_changed = NoEvent
    /\ cn_pc = "new"

\* an event is added to the stream by the agent or the runtime
StreamAdd ==
    /\ UNCHANGED <<exec_vars, edit_vars, bash_vars, more_vars, port_vars, agent_vars>>
    /\ Len(event_stream) < MaxEvents
    /\ \E cls \in EventClasses : event_stream' = Append(event_stream, cls)
    /\ UNCHANGED <<latest_event_id, cursor, emitted, agent_state_changed, cn_pc>>

\* lines 36-39 and 91-99: the client connects with its latest_event_id
connect ==
    /\ UNCHANGED <<exec_vars, edit_vars, bash_vars, more_vars, port_vars, agent_vars>>
    /\ cn_pc = "new"
    /\ \E k \in -1..(MaxEvents - 1) :
          /\ latest_event_id' = k
          /\ cursor' = k + 1
    /\ agent_state_changed' = NoEvent
    /\ cn_pc' = "replay"
    /\ UNCHANGED <<event_stream, emitted>>

\* lines 99-109: one turn of the loop
ReplayEvent ==
    /\ UNCHANGED <<exec_vars, edit_vars, bash_vars, more_vars, port_vars, agent_vars>>
    /\ cn_pc = "replay"
    /\ LET it == AsyncEventStoreWrapper(event_stream, cursor)
       IN /\ ~it.exhausted
          /\ IF Skipped(it.cls)
             THEN UNCHANGED <<emitted, agent_state_changed>>
             ELSE IF IsAgentStateChanged(it.cls)
             THEN agent_state_changed' = cursor /\ UNCHANGED emitted
             ELSE emitted' = Append(emitted, cursor) /\ UNCHANGED agent_state_changed
    /\ cursor' = cursor + 1
    /\ UNCHANGED <<event_stream, latest_event_id, cn_pc>>

\* lines 110-113: the loop is over; the event kept back is emitted
ReplayEnd ==
    /\ UNCHANGED <<exec_vars, edit_vars, bash_vars, more_vars, port_vars, agent_vars>>
    /\ cn_pc = "replay"
    /\ AsyncEventStoreWrapper(event_stream, cursor).exhausted
    /\ emitted' = IF agent_state_changed # NoEvent
                  THEN Append(emitted, agent_state_changed) ELSE emitted
    /\ cn_pc' = "done"
    /\ UNCHANGED <<event_stream, latest_event_id, cursor, agent_state_changed>>

ConnectNext ==
    \/ StreamAdd
    \/ connect
    \/ ReplayEvent
    \/ ReplayEnd

-----------------------------------------------------------------------------
(* Specifications: one per component, the other components at rest *)

ExecAtRest ==
    /\ bash_session = FALSE
    /\ plugins = {}
    /\ lock_locked = FALSE
    /\ lock_waiters = <<>>
    /\ lock_woken = {}
    /\ pc = [t \in Tasks |-> "idle"]
    /\ act = [t \in Tasks |-> NoAction]
    /\ obs = [t \in Tasks |-> NoObs]
    /\ file = Absent
    /\ nsub = 0
    /\ last = NoCall
    /\ prev = NoPrev

EditAtRest ==
    /\ ed_pc = "idle"
    /\ file_name = "/tmp/a.py"
    /\ efile = Absent
    /\ temp_file = None
    /\ backup_file = None
    /\ n_stray = 0
    /\ args = NoArgs
    /\ ed_start = None
    /\ lines = <<>>
    /\ new_content = <<>>
    /\ old_file = Absent
    /\ ret_str = "none"
    /\ CURRENT_LINE = 1
    /\ n_calls = 0

BashAtRest ==
    /\ BashInit
    /\ username = "root"
    /\ NO_CHANGE_TIMEOUT_SECONDS = DefaultNoChangeTimeout

AinitAtRest ==
    /\ AinitInit
    /\ plugins_to_load = {}

IPythonAtRest ==
    /\ IPythonInit
    /\ executor_username = "root"

ParserAtRest ==
    /\ response = <<>>
    /\ parsed = NoParsed

StuckAtRest == StuckInit

AgentAtRest ==
    /\ AgentInit
    /\ function_calling = TRUE

PortsAtRest ==
    /\ PortsInit
    /\ bindable = PortRange

ExtraAtRest == PortsAtRest /\ AgentAtRest /\ ConnectInit

MoreAtRest ==
    /\ AinitAtRest /\ IPythonAtRest /\ ParserAtRest /\ StuckAtRest
    /\ ExtraAtRest

\* the dispatcher and its handlers
Init == ExecInit /\ EditAtRest /\ BashAtRest /\ MoreAtRest
Next == ExecNext
Spec == Init /\ [][Next]_vars

\* the line-edit transaction
InitEdit == EditInit /\ ExecAtRest /\ BashAtRest /\ MoreAtRest
NextEdit == EditNext
SpecEdit == InitEdit /\ [][NextEdit]_vars

\* the shell session
InitBash == BashInit /\ ExecAtRest /\ EditAtRest /\ MoreAtRest
NextBash == BashNext
SpecBash == InitBash /\ [][NextBash]_vars

FirstThreeAtRest == ExecAtRest /\ EditAtRest /\ BashAtRest

\* startup: ainit under the lifespan
InitAinit ==
    /\ AinitInit
    /\ FirstThreeAtRest /\ IPythonAtRest /\ ParserAtRest /\ StuckAtRest
    /\ ExtraAtRest
NextAinit == AinitNext
SpecAinit == InitAinit /\ [][NextAinit]_vars

\* run_ipython
InitIPython ==
    /\ IPythonInit
    /\ FirstThreeAtRest /\ AinitAtRest /\ ParserAtRest /\ StuckAtRest
    /\ ExtraAtRest
NextIPython == IPythonNext
SpecIPython == InitIPython /\ [][NextIPython]_vars

\* the response parser
InitParser ==
    /\ ParserInit
    /\ FirstThreeAtRest /\ AinitAtRest /\ IPythonAtRest /\ StuckAtRest
    /\ ExtraAtRest
NextParser == ParserNext
SpecParser == InitParser /\ [][NextParser]_vars

\* the stuck detector
InitStuck ==
    /\ StuckInit
    /\ FirstThreeAtRest /\ AinitAtRest /\ IPythonAtRest /\ ParserAtRest
    /\ ExtraAtRest
NextStuck == StuckNext
SpecStuck == InitStuck /\ [][NextStuck]_vars

AllButExtraAtRest == FirstThreeAtRest /\ AinitAtRest /\ IPythonAtRest /\ ParserAtRest /\ StuckAtRest

\* port allocation
InitPorts == PortsInit /\ AllButExtraAtRest /\ AgentAtRest /\ ConnectInit
NextPorts == PortsNext
SpecPorts == InitPorts /\ [][NextPorts]_vars

\* the agent's queue of pending actions
InitAgent == AgentInit /\ AllButExtraAtRest /\ PortsAtRest /\ ConnectInit
NextAgent == AgentNext
SpecAgent == InitAgent /\ [][NextAgent]_vars

\* the replay on connect
InitConnect == ConnectInit /\ AllButExtraAtRest /\ PortsAtRest /\ AgentAtRest
NextConnect == ConnectNext
SpecConnect == InitConnect /\ [][NextConnect]_vars

-----------------------------------------------------------------------------
(* Properties of the dispatcher and the file handlers (Spec) *)

InsideLock == {"locked", "handler", "exit"}

\* C1: for any interleaving of concurrent run_action calls on one instance,
\* at most one handler executes at a time: while one coroutine is between
\* taking the lock and releasing it, no other coroutine is in its handler or
\* anywhere else inside the lock.
C1_OneHandlerAtATime ==
    \A t, u \in Tasks :
        (t # u /\ pc[t] \in InsideLock) => pc[u] \notin InsideLock

\* a handler is executing while a second run_action call waits for the lock
C1_Witness ==
    \E t, u \in Tasks : t # u /\ pc[t] = "handler" /\ pc[u] = "waiting"

\* C2: run_action on a FileWriteAction (start=0, end=-1) whose path does not
\* exist creates the file and returns a FileWriteObservation with empty
\* content, not an error observation and not an exception.
C2_WriteNewFileSucceeds ==
    (bash_session /\ last.act.action = "write" /\ last.before = Absent)
        => /\ last.after.kind = "file"
           /\ last.obs = Observation("FileWriteObservation", <<>>)

\* C3: after a FileWriteAction (start=0, end=-1) on a nonexistent path the
\* file's content is exactly the action's content, no line added or removed.
C3_NewFileHoldsContent ==
    (bash_session /\ last.act.action = "write" /\ last.before = Absent)
        => last.after = RegularFile(last.act.content)

\* C4: a FileEditAction whose old_str occurs in the file replaces old_str by
\* new_str in the file and returns a success observation, and a
\* FileReadAction of the path returns the content the file then holds.
C4_EditReplacesThenReadSees ==
    /\ (/\ last.act.action = "edit"
        /\ last.act.impl_source = "oh_aci"
        /\ last.before.kind = "file"
        /\ Occurs(last.before.content, last.act.old_str))
          => /\ last.obs.kind = "FileEditObservation"
             /\ last.after = RegularFile(Replace(last.before.content,
                                                 last.act.old_str,
                                                 last.act.new_str))
    /\ (/\ bash_session
        /\ last.act.action = "read"
        /\ last.act.impl_source = "default"
        /\ last.before.kind = "file")
          => last.obs = Observation("FileReadObservation", last.after.content)

-----------------------------------------------------------------------------
(* Properties of the line-edit transaction (SpecEdit) *)

\* the call got past validation, so it ran on an existing, unprotected file
EditReturned == ed_pc = "returned" /\ ret_str # "None"

\* C5: when a call of _edit_file_impl on an existing file returns, either
\* the file holds the edited content and neither the .temp_* sibling nor the
\* lint backup of the call exists, or the file is identical to its content
\* before the call and an error message is returned.
C5_EditAtomic ==
    EditReturned =>
        \/ /\ ret_str = "success"
           /\ efile = RegularFile(new_content)
           /\ temp_file = None
           /\ backup_file = None
        \/ /\ ret_str \in {"LineNumberError", "LintError"}
           /\ efile = old_file

\* some finding of the second report carries a message the first does not
HasNewFinding(pre, post) ==
    \E i \in 1..Len(post) : \A j \in 1..Len(pre) : pre[j].message # post[i].message

\* C6: with auto-lint enabled, if the lint report of the edited content has
\* a finding absent from the report of the original content, then when the
\* call returns the file's content equals its content before the call.
C6_LintRollback ==
    (/\ EditReturned
     /\ args.enable_auto_lint
     /\ ret_str \in {"success", "LintError"}
     /\ HasNewFinding(_lint_file(old_file.content), _lint_file(new_content)))
        => efile = old_file

\* C7: for a file of N >= 1 lines, a line edit with start=0 and a line edit
\* with start=N+1 both return a line-number error and leave the file
\* unchanged, whatever end and the new content are.
C7_StartOutOfRange ==
    LET N == Len(Readlines(old_file.content))
    IN (/\ EditReturned
        /\ ~args.is_insert /\ ~args.is_append
        /\ N >= 1
        /\ args.start \in {Some(0), Some(N + 1)})
          => /\ ret_str = "LineNumberError"
             /\ efile = old_file

-----------------------------------------------------------------------------
(* Properties of the shell session (SpecBash) *)

\* the command of the call in progress went to the shell
InExpect == bs_pc = "expecting"
Returned == bs_pc = "returned" /\ sent

\* C8: when a command has produced no new output for N =
\* NO_CHANGE_TIMEOUT_SECONDS seconds without the completion sentinel having
\* appeared, execute returns after about N seconds: it is not still waiting
\* once the output has been still for longer than N, and what it returns
\* then is an observation with the partial output and exit code -1.
C8_NoChangeTimeout ==
    /\ InExpect => idle_for <= NO_CHANGE_TIMEOUT_SECONDS
    /\ (Returned /\ idle_for >= NO_CHANGE_TIMEOUT_SECONDS /\ ~HasMatch(received))
          => /\ bs_obs.kind = "CmdOutputObservation"
             /\ bs_obs.exit_code = -1

\* C9: execute returns control by the time the action's hard timeout has
\* elapsed: it is never still waiting for the command after more than
\* action.timeout seconds.
C9_HardTimeout ==
    InExpect => elapsed <= cur.timeout

\* C10: execute reports the command complete exactly when the complete
\* sentinel is present in the output accumulated since the command was
\* sent: a completion implies the sentinel is in that output (whether it
\* was read whole or in two pieces), and a call that gives up without
\* completion has not seen it (a prefix of the sentinel is not enough).
C10_CompleteIffSentinel ==
    Returned =>
        (bs_obs.kind = "CmdOutputObservation" <=> HasMatch(received))

-----------------------------------------------------------------------------
(* Further properties of the dispatcher (Spec) *)

\* C11: for an action whose failure is recoverable (a timeout, an invalid
\* path, a permission error, the code-kernel plugin absent for one request)
\* run_action returns an Observation describing the error: with the shell
\* session in place, no exception leaves run_action for a run, run_ipython,
\* read or write action, the death of the shell process excepted.
C11_ErrorsAreObservations ==
    (/\ bash_session
     /\ last.act.action \in {"run", "run_ipython", "read", "write"}
     /\ last.obs.kind = "raise")
        => last.obs.content = <<"pexpect.EOF">>

-----------------------------------------------------------------------------
(* Further properties of the shell session (SpecBash) *)

\* C12: after any sequence of completed commands BashSession.cwd equals the
\* working directory of the shell process: when no call is in progress and
\* the shell has finished everything it was sent, _cwd is the shell's
\* directory (after a completed `cd /tmp`, it is /tmp).
C12_CwdTracksShell ==
    (bs_pc = "ready" /\ _initialized /\ sh_alive /\ sh_jobs = <<>>)
        => _cwd = sh_cwd

\* C13: whenever run_ipython submits a code cell, the kernel's working
\* directory equals the shell's actual working directory at that moment (a
\* directory-change call has been issued first if the shell moved since the
\* last synchronisation).
C13_KernelCwdSynced ==
    [][n_cells' # n_cells => kernel_cwd' = sh_cwd]_vars

\* C14: for every command that completes, the exit_code of the returned
\* CmdOutputObservation equals the exit status the command had in the shell;
\* a command that fails in the shell returns a non-zero exit_code.
C14_ExitCodeIsShellStatus ==
    (Returned /\ bs_obs.kind = "CmdOutputObservation" /\ HasMatch(received))
        => bs_obs.exit_code = ExitStatus(cur.command)

\* C15: when the previous execute gave up on a command that is still
\* running and the next action's command is empty, execute sends nothing to
\* the shell: no text reaches the pty and the shell is given no new command
\* line (the call only collects what the running process has printed).
C15_EmptyCommandPolls ==
    [][(n_exec' # n_exec /\ pending /\ cur'.command = "" /\ ~cur'.is_input)
          => (pty' = pty /\ sh_jobs' = sh_jobs)]_vars

\* C16: when action.is_input is true, execute writes the text to the running
\* process and returns without waiting for a new sentinel prompt, and the
\* text is not queued as a new shell command line.
C16_InputDoesNotWait ==
    [][(n_exec' # n_exec /\ cur'.is_input)
          => (bs_pc' = "returned" /\ sh_jobs' = sh_jobs)]_vars

\* C17: if the shell process dies, the execute call in progress and every
\* later execute call on the session return an ErrorObservation, and no new
\* shell process is ever started for the session: once the shell is gone it
\* stays gone.
C17_ShellDeathIsErrorObservation ==
    /\ [](( Returned /\ ~sh_alive /\ ~HasMatch(received))
            => bs_obs.kind = "ErrorObservation")
    /\ [][(bs_pc # "new" /\ ~sh_alive) => ~sh_alive']_vars

-----------------------------------------------------------------------------
(* Routing (Spec) *)

-----------------------------------------------------------------------------
(* Further properties of the file operations (SpecEdit) *)

\* C19: the content of the protected path /tmp/test_task.py is unchanged by
\* every file operation: no step of any operation on that path changes the
\* file.
C19_ProtectedFileUnchanged ==
    [][file_name = ProtectedPath => efile' = efile]_vars

\* C20: when a line edit fails because a line number is out of range, an
\* error message is returned, the target file's content is unchanged and no
\* other file is left behind: neither the temporary sibling nor a backup.
C20_FailureLeavesNothing ==
    (EditReturned /\ ret_str = "LineNumberError")
        => /\ efile = old_file
           /\ temp_file = None
           /\ backup_file = None

\* the text of a line without its line terminator
LineText(l) == IF EndsWithNL(l) THEN SubSeq(l, 1, Len(l) - 1) ELSE l

\* C21: insert_content_before_line(file, k, content) and
\* insert_content_after_line(file, k, content), i.e. an insert at s = k or
\* s = k + 1 with 1 <= k <= N, that succeeds puts the lines of content at
\* position s and leaves the text of every original line unchanged: the
\* lines before s keep their place and text, the lines from s on follow the
\* inserted lines with their text unchanged, whether or not the last line
\* of the file ended in a newline.
C21_InsertKeepsOtherLines ==
    LET old == Readlines(old_file.content)
        new == Readlines(efile.content)
        ins == Readlines(args.content)
        N == Len(old)
        s == args.start[1]
    IN (/\ EditReturned /\ ret_str = "success"
        /\ args.is_insert /\ ~args.is_append
        /\ args.content # <<>>
        /\ args.start # None /\ args.end = args.start
        /\ N >= 1 /\ s >= 1 /\ s <= N + 1)
          => /\ Len(new) = N + Len(ins)
             /\ \A i \in 1..(s - 1) : LineText(new[i]) = LineText(old[i])
             /\ \A i \in 1..Len(ins) : LineText(new[s - 1 + i]) = LineText(ins[i])
             /\ \A i \in s..N : LineText(new[i + Len(ins)]) = LineText(old[i])

-----------------------------------------------------------------------------
(* Reads (Spec) *)

-----------------------------------------------------------------------------
(* Startup (SpecAinit) *)

\* C23: ActionExecutor.initialized becomes true only if every plugin in
\* plugins_to_load finished initializing within the one overall budget of
\* wait_all and is registered in plugins; if any plugin fails or times out,
\* startup fails: the instance never reports initialized and never serves
\* an action with a partial plugin set.
C23_AllPluginsOrNoStart ==
    /\ executor_initialized =>
          \A p \in plugins_to_load : plugin_task[p] = "done" /\ p \in ai_plugins
    /\ (\E p \in plugins_to_load : plugin_task[p] \in {"failed", "cancelled"}) =>
          /\ ~executor_initialized
          /\ ai_pc \in {"wait_all", "failed"}
          /\ alive_status # "ok"
          /\ served_with = {}
    /\ alive_status = "ok" => executor_initialized
    /\ \A s \in served_with : executor_initialized /\ plugins_to_load \subseteq s

\* both plugins were loaded after some waiting, and an action has been served
C23_Witness ==
    /\ executor_initialized
    /\ plugins_to_load = {"jupyter", "agent_skills"}
    /\ wait_elapsed > 0
    /\ alive_status = "ok"
    /\ served_with = {{"jupyter", "agent_skills"}}


\* C24: in ainit no plugin's initialize has started, and no code cell has gone
\* to the kernel, unless bash_session.initialize() has completed
C24_BashBeforePlugins ==
    /\ (\E p \in AllPlugins : plugin_task[p] # "idle") => ai_bash_session = "initialized"
    /\ ai_plugins # {} => ai_bash_session = "initialized"
    /\ cells_sent > 0 => ai_bash_session = "initialized"

C24_Witness ==
    /\ ai_bash_session = "initialized"
    /\ plugin_task["jupyter"] = "registered"
    /\ plugin_task["agent_skills"] = "running"
    /\ cells_sent > 0


\* C25: every observation run_action has returned has content of at most
\* max_message_chars characters and holds no ANSI colour sequence
C25_ObservationsNormalized ==
    last.obs.kind \notin {"none", "raise"}
       => /\ TextLen(last.obs.content) <= max_message_chars
          /\ ~HasAnsi(last.obs.content)


\* C26: after a call of run_ipython that submitted its cell to the kernel,
\* last_code is the code the caller gave and is_last_code_error tells whether
\* the cell's output holds a traceback, whatever observation was returned
C26_LastCodeTracksSubmittedCell ==
    cell.sent # NotSent
       => /\ last_code = cell.code
          /\ is_last_code_error = HasTraceback(cell.output)


\* C27: the session's last command is the command of the previous execute
\* call, and a second consecutive `ls -l` (or `ls -la`) is answered with the
\* repeated-command notice without being sent to the shell
C27_RepeatedLsIsAnswered ==
    /\ (bs_pc # "new" /\ cur = NoCmd) => last_command = prev_command
    /\ (/\ bs_pc \in {"expecting", "returned"}
        /\ n_exec >= 2
        /\ cur.command = prev_command
        /\ cur.command \in {"ls -l", "ls -la"})
          => /\ ~sent
             /\ bs_obs = CmdOutputObservation(
                            <<"[Why are you executing the same command twice?]">>, "", 0)


\* the first opening tag of an execute block in a response, 0 when none
FirstBlockAt(s) ==
    LET opens == UNION { Positions(s, OpenTag(l)) : l \in Langs }
    IN IF opens = {} THEN 0 ELSE SetMin(opens)

\* the action class each kind of block is parsed into
ActionFor(tag) ==
    CASE tag = "<execute_bash>" -> "CmdRunAction"
      [] tag = "<execute_ipython>" -> "IPythonRunCellAction"
      [] tag = "<execute_browse>" -> "AgentDelegateAction"

\* C28: of several execute blocks in a response, the action returned is the
\* one for the block that comes first in the text, with that block's body
C28_FirstBlockWins ==
    (parsed # NoParsed /\ FirstBlockAt(response) > 0)
       => /\ parsed.kind = ActionFor(response[FirstBlockAt(response)])
          /\ parsed.body = <<response[FirstBlockAt(response) + 1]>>


\* the marker elements of an output, in order
Payloads(out) == SelectSeq(out, LAMBDA p : p.kind = "marker")

\* one marker whose JSON payload has a non-empty path
OneMarkerWithPath(out) ==
    /\ Len(Payloads(out)) = 1
    /\ Payloads(out)[1].json_ok
    /\ Payloads(out)[1].path # ""

\* the formatted outputs of the markers, one per line
FormattedOutputs(out) == [i \in 1..Len(Payloads(out)) |-> ResultOf(Payloads(out)[i])]

\* what run_ipython looks at: the kernel's output, or for a pip install cell
\* the summary that stands in for it
Examined(c) ==
    IF IsPipInstall(c.sent) THEN parse_pip_output(c.sent, c.output) ELSE c.output

\* lines 417-419: the hint that follows a traceback for a user other than root
WithHint(c) ==
    IF executor_username # "root" /\ HasTraceback(c) THEN Append(c, Text(Hint)) ELSE c

\* the observation run_ipython is to return for an output with markers
MarkerObservationIs(out, o, content) ==
    /\ OneMarkerWithPath(out) =>
          IF Payloads(out)[1].new_content # Null
          THEN o.kind = "FileEditObservation" /\ o.path = Payloads(out)[1].path
          ELSE /\ o.kind = "FileReadObservation"
               /\ o.path = Payloads(out)[1].path
               /\ o.content = <<Text(Payloads(out)[1].formatted_output_and_error)>>
    /\ (Payloads(out) # <<>> /\ ~OneMarkerWithPath(out)) =>
          /\ o.kind = "IPythonRunCellObservation"
          /\ o.content = content

\* C29: for a cell that ran, one marker with a non-empty path gives a
\* FileEditObservation (new_content not null) or a FileReadObservation; an
\* error payload, invalid JSON or several markers give the plain observation
\* whose content is the formatted outputs joined by newlines. The markers are
\* those of the content run_ipython examines (for a pip install cell the
\* summary of its output), and for a user other than root the hint follows a
\* content that holds a traceback
C29_MarkerObservation ==
    cell.sent # NotSent
       => MarkerObservationIs(Examined(cell), cell.obs,
                              WithHint(FormattedOutputs(Examined(cell))))

\* C29 as stated: the markers of the cell's output decide, and the plain
\* content is the formatted outputs alone
C29_AsStated ==
    cell.sent # NotSent
       => MarkerObservationIs(cell.output, cell.obs, FormattedOutputs(cell.output))

C29_Witness ==
    /\ executor_username = "openhands"
    /\ cell.sent = "open_file('f')"
    /\ cell.output = <<Marker("/f", "new text", "edited f")>>
    /\ cell.obs.kind = "FileEditObservation"
    /\ cell.obs.path = "/f"


\* the last two events of a sequence are a pair for which eq holds
LastTwoEqual(s, eq(_, _)) == Len(s) >= 2 /\ eq(s[Len(s)], s[Len(s) - 1])

\* equality of events with command observations compared by command and
\* exit code
EqByCommand(e1, e2) ==
    IF e1.cls = "CmdOutputObservation" /\ e2.cls = "CmdOutputObservation"
    THEN e1.command = e2.command /\ e1.exit_code = e2.exit_code
    ELSE e1 = e2

\* the same, with two cells that call edit_file_by_replace compared by their
\* first three lines and never equal when they have fewer than three
EqByCommandAndEditLines(e1, e2) ==
    IF /\ e1.cls = "IPythonRunCellAction" /\ e2.cls = "IPythonRunCellAction"
       /\ HasEditCall(e1.code) /\ HasEditCall(e2.code)
    THEN Len(e1.code) > 2 /\ SliceTo(e1.code, 3) = SliceTo(e2.code, 3)
    ELSE EqByCommand(e1, e2)

\* without user messages and null events, the last two actions and the last
\* two observations of h are equal
RepeatsLastStep(h, eq(_, _)) ==
    LET f == SelectSeq(h, LAMBDA e : ~IsUserMessage(e) /\ ~IsNull(e))
    IN /\ LastTwoEqual(SelectSeq(f, IsAction), eq)
       /\ LastTwoEqual(SelectSeq(f, IsObservation), eq)

-----------------------------------------------------------------------------
(* controller/stuck.py over histories that grow by whole steps: an action   *)
(* followed by its observation                                              *)

MaxSteps == 4

Step(a, o) == <<a, o>>

\* the steps an agent takes: two commands with their outputs, and a command
\* answered with an error whose text varies
StepPairs ==
    { Step(Event("CmdRunAction", "agent", <<>>, "ls", 0, ""),
           Event("CmdOutputObservation", "environment", <<>>, "ls", 0, "a.txt")),
      Step(Event("CmdRunAction", "agent", <<>>, "pwd", 0, ""),
           Event("CmdOutputObservation", "environment", <<>>, "pwd", 0, "/workspace")),
      Step(Event("CmdRunAction", "agent", <<>>, "ls", 0, ""),
           Event("ErrorObservation", "environment", <<>>, "", 0, "error")),
      Step(Event("CmdRunAction", "agent", <<>>, "ls", 0, ""),
           Event("ErrorObservation", "environment", <<>>, "", 0, "other error")) }

\* the controller appends an action and then the observation it caused
AddStep ==
    /\ UNCHANGED <<extra_vars, exec_vars, edit_vars, bash_vars, init_vars, ipython_vars, parser_vars>>
    /\ Len(history) < 2 * MaxSteps
    /\ \E s \in StepPairs : history' = history \o s
    /\ stuck' = NoVerdict

StepsNext ==
    \/ AddStep
    \/ IsStuckCall

InitSteps == InitStuck
NextSteps == StepsNext
SpecSteps == InitSteps /\ [][NextSteps]_vars

\* the k-th step from the end of a history made of steps (1 is the latest)
StepFromEnd(h, k) == SubSeq(h, Len(h) - 2 * k + 1, Len(h) - 2 * k + 2)

\* C31: is_stuck reports a loop when the last four steps alternate between
\* two different (action, observation) pairs: (a1,o1), (a2,o2), (a1,o1), (a2,o2)
C31_AlternatingStepsAreStuck ==
    (/\ stuck.called
     /\ Len(history) >= 8
     /\ StepFromEnd(history, 1) = StepFromEnd(history, 3)
     /\ StepFromEnd(history, 2) = StepFromEnd(history, 4)
     /\ StepFromEnd(history, 1) # StepFromEnd(history, 2))
       => stuck.result

\* C32: is_stuck reports a loop when the last three actions are equal and the
\* last three observations are ErrorObservations, whatever their contents
C32_RepeatedErrorsAreStuck ==
    (/\ stuck.called
     /\ Len(history) >= 6
     /\ \A k \in 1..3 :
           /\ StepFromEnd(history, k)[1] = StepFromEnd(history, 1)[1]
           /\ StepFromEnd(history, k)[2].cls = "ErrorObservation")
       => stuck.result


\* the positions of the agent's MessageActions in a history
AgentMessages(h) == {i \in 1..Len(h) : h[i].cls = "MessageAction" /\ h[i].source = "agent"}

\* the last three of the agent's MessageActions are equal, and no observation
\* lies between the first and the third of them
MonologueAtEnd(h) ==
    /\ Cardinality(AgentMessages(h)) >= 3
    /\ LET last3 == {i \in AgentMessages(h) :
                         Cardinality({j \in AgentMessages(h) : j >= i}) <= 3}
       IN /\ \A i, j \in last3 : h[i] = h[j]
          /\ \A k \in 1..Len(h) :
                (\E i, j \in last3 : i < k /\ k < j) => ~IsObservation(h[k])

\* C33: is_stuck reports a loop when the agent's last three MessageActions
\* are equal with no observation between the first and the third, whatever
\* the history holds before them (said of the events the call looks at: user
\* messages and null events left out, after the last user message when not
\* headless)
C33_MonologueIsStuck ==
    (stuck.called
       /\ MonologueAtEnd(filtered_history(history_to_check(history, stuck.headless_mode))))
       => stuck.result

-----------------------------------------------------------------------------
(* controller/stuck.py: the shape of what is_stuck returns, over histories  *)
(* of agent actions and condensation events                                 *)

MaxAgentActions == 4
MaxCondensations == 10

\* lines 82-158: the value of each return statement is a (stuck, resolution)
\* tuple, except the `return True` of scenario 5
is_stuck_returns(h, headless_mode) ==
    LET f == filtered_history(history_to_check(h, headless_mode))
        two == get_last_event_pairs(f, 2)
        four == get_last_event_pairs(f, 4)
    IN IF ~(Len(two.last_actions) = 2 /\ Len(two.last_observations) = 2) THEN "tuple"
       ELSE IF _is_stuck_repeating_action_observation(two.last_actions,
                                                       two.last_observations) THEN "tuple"
       ELSE IF _is_stuck_repeating_action_error(two.last_actions,
                                                 two.last_observations) THEN "tuple"
       ELSE IF _is_stuck_monologue(f) THEN "tuple"
       ELSE IF ~(Len(four.last_actions) = 4 /\ Len(four.last_observations) = 4) THEN "tuple"
       ELSE IF _is_stuck_action_observation_pattern(four.last_actions,
                                                     four.last_observations) THEN "tuple"
       ELSE IF Len(f) >= 10 /\ _is_stuck_context_window_error(f) THEN "bool"
       ELSE "tuple"

AgentCommands == {"ls", "pwd"}

CountOf(h, cls) == Cardinality({i \in 1..Len(h) : h[i].cls = cls})

\* the agent's action is appended to the history
AddAction ==
    /\ UNCHANGED <<extra_vars, exec_vars, edit_vars, bash_vars, init_vars, ipython_vars, parser_vars>>
    /\ CountOf(history, "CmdRunAction") < MaxAgentActions
    /\ \E c \in AgentCommands :
          history' = Append(history, Event("CmdRunAction", "agent", <<>>, c, 0, ""))
    /\ stuck' = NoVerdict

\* the controller records a condensation after a context window error
Condense ==
    /\ UNCHANGED <<extra_vars, exec_vars, edit_vars, bash_vars, init_vars, ipython_vars, parser_vars>>
    /\ CountOf(history, "AgentCondensationObservation") < MaxCondensations
    /\ history' = Append(history, Event("AgentCondensationObservation", "agent",
                                        <<>>, "", 0, ""))
    /\ stuck' = NoVerdict

CondenseNext ==
    \/ AddAction
    \/ Condense
    \/ IsStuckCall

InitCondense == InitStuck
NextCondense == CondenseNext
SpecCondense == InitCondense /\ [][NextCondense]_vars

\* C40: every call of is_stuck returns a (stuck, resolution) pair
C40_AlwaysReturnsPair ==
    stuck.called => is_stuck_returns(history, stuck.headless_mode) = "tuple"


-----------------------------------------------------------------------------
(* Properties of find_available_tcp_port (SpecPorts) *)

\* C34: whatever the interleaving of the calls, no port is returned to two of
\* them, and a call that returned -1 has refused no candidate that was
\* unallocated and bindable when it was tested
C34_PortsAreExclusive ==
    /\ \A c1, c2 \in Callers :
          (/\ c1 # c2
           /\ fc[c1].pc = "done" /\ fc[c1].result # -1
           /\ fc[c2].pc = "done" /\ fc[c2].result # -1)
             => fc[c1].result # fc[c2].result
    /\ \A c \in Callers :
          (fc[c].pc = "done" /\ fc[c].result = -1) => ~fc[c].refused_free
    /\ \A c \in Callers :
          (fc[c].pc = "done" /\ fc[c].result # -1) => fc[c].result \in allocated_ports

C34_Witness ==
    /\ fc[1].pc = "done" /\ fc[1].result = 30000
    /\ fc[2].pc = "done" /\ fc[2].result = -1
    /\ fc[2].ports = <<30000, 30001>>
    /\ bindable = PortRange


-----------------------------------------------------------------------------
(* Properties of CodeActAgent.step and reset (SpecAgent) *)

IsPrefix(s, t) == Len(s) <= Len(t) /\ s = SubSeq(t, 1, Len(s))

\* C35: the actions of one LLM response are returned in their order, one per
\* step; while pending_actions is not empty a step asks no LLM and returns
\* the head of the queue; an action that was queued when reset was called is
\* not returned afterwards
C35_QueueIsDrainedInOrder ==
    /\ IsPrefix(returned, issued)
    /\ step_out.kind \in {"queue", "llm"} =>
          /\ returned # <<>>
          /\ step_out.action = returned[Len(returned)]
          /\ step_out.action \notin discarded
    /\ (step_out.kind # "reset" /\ step_out.pending_before # <<>>) =>
          /\ step_out.kind = "queue"
          /\ ~step_out.llm_called
          /\ step_out.action = Head(step_out.pending_before)
    /\ step_out.kind = "reset" => pending_actions = <<>>
    /\ Elements(pending_actions) \cap discarded = {}

C35_Witness ==
    /\ discarded = {AgentAction(1, 2), AgentAction(1, 3)}
    /\ issued = ResponseActions(2, 3)
    /\ returned = ResponseActions(2, 3)
    /\ step_out.kind = "queue"
    /\ pending_actions = <<>>


-----------------------------------------------------------------------------
(* Properties of the replay on connect (SpecConnect) *)

\* the ids the replay has read so far
Replayed == { id \in 0..(Len(event_stream) - 1) : id > latest_event_id /\ id < cursor }

\* the members of a set of ids in ascending order
Ascending(S) ==
    CHOOSE s \in [1..Cardinality(S) -> S] : \A i, j \in 1..Cardinality(S) : i < j => s[i] < s[j]

NullOrRecall(id) ==
    event_stream[id + 1] \in {"NullAction", "NullObservation", "RecallAction",
                              "RecallObservation"}

StateChanged(id) == event_stream[id + 1] = "AgentStateChangedObservation"

-----------------------------------------------------------------------------
(* Attribution of output and the canned cd answer (SpecBash) *)

\* what the shell prints for one command line, the prompts left out
RECURSIVE OutputOfJobs(_)
OutputOfJobs(jobs) ==
    IF jobs = <<>> THEN <<>> ELSE Head(jobs).out \o OutputOfJobs(Tail(jobs))
OwnOutput(command) == OutputOfJobs(JobsOf(command))

\* C37: for any sequence of execute calls the content of the k-th returned
\* observation is output of the k-th command only: whatever a call that sent
\* its command to the shell returns as content is the beginning of what that
\* command printed, with nothing an earlier command left unread in it.
C37_OutputIsOwn ==
    (bs_pc = "returned" /\ sent /\ bs_obs.kind = "CmdOutputObservation")
        => IsPrefix(bs_obs.content, OwnOutput(cur.command))

\* C38: execute answers a cd command with [You are already in this
\* directory.] without sending it to the shell only when the working
\* directory of the shell process is that path at that moment.
C38_AlreadyThereOnlyWhenThere ==
    [][(/\ n_exec' # n_exec
        /\ bs_obs'.content = <<"[You are already in this directory.]">>)
          => sh_cwd = CdPath(cur'.command)]_vars

-----------------------------------------------------------------------------
(* The lock after a handler raised (SpecLive) *)

\* The event loop runs every coroutine that is ready: a call that can take a
\* step of run_action takes it; handlers end (child.expect is limited by the
\* spawn timeout). Callers are free to make no further call.
Fairness ==
    \A t \in Tasks :
        /\ WF_vars(Acquire(t))
        /\ WF_vars(Wake(t))
        /\ WF_vars(Dispatch(t))
        /\ WF_vars(HandlerDone(t))
        /\ WF_vars(Release(t))

\* the executor after ainit succeeded without plugins, the file not yet there
InitLive == Init /\ bash_session /\ plugins = {} /\ file = Absent

SpecLive == InitLive /\ [][Next]_vars /\ Fairness

\* the dispatch completed last left its handler by an exception
HandlerRaised == Routable(last.act.action) /\ last.obs.kind = "raise"

\* the call of task u is inside the lock, its handler running (getattr has
\* raised AttributeError instead when the tag has no handler)
RunsHandler(u) ==
    \/ pc[u] = "handler"
    \/ pc[u] = "exit" /\ ~Routable(act[u].action)

\* C39: if an action handler raises inside run_action the lock is released,
\* so a later run_action call on the same instance eventually acquires the
\* lock and runs its handler: a call made after a handler raised, or waiting
\* for the lock when it raised, leads to that call's handler running.
C39_LockFreedAfterRaise ==
    \A u \in Tasks :
        (HandlerRaised /\ pc[u] \in {"acquire", "waiting"}) ~> RunsHandler(u)

C39_Witness ==
    \E u \in Tasks :
        /\ pc[u] = "handler"
        /\ HandlerRaised
        /\ \A t \in Tasks \ {u} : pc[t] = "idle"

====
